---- MODULE Spec2Model ----
(***************************************************************************)
(* Model of the allocator stack of yaneury/allocators:                     *)
(*   - strategy::FreeList   (single-threaded split/coalesce allocator)     *)
(*   - strategy::LockFreeBump (lock-free monotonic allocator)              *)
(*   - provider::LockFreePage (lock-free LIFO page provider)               *)
(*   - provider::UnsynchronizedPage (the provider under FreeList)          *)
(* Addresses are plain integers, Null is 0.  Header memory is a function   *)
(* from the addresses at which a BlockHeader has been written to the       *)
(* header stored there.                                                    *)
(***************************************************************************)
EXTENDS Integers, Naturals, Sequences, FiniteSets, TLC

\* ------------------------------------------------------------------ bounds
\* Number of successful FreeList::Find calls explored.
MaxFinds == 3

\* Fuel of every list walk; a walk that exceeds it never terminates.
MaxWalk == 8

\* ------------------------------------------------------- program constants
Null == 0

\* internal::GetPageSize(), 4 KiB platforms.
GetPageSize == 4096

\* sizeof(BlockHeader): a size_t and a pointer.
GetBlockHeaderSize == 16

\* sizeof(void*)
kMinimumAlignment == 8

\* Address of the first mapping handed out by mmap (any page-aligned value).
MmapBase == 2 * GetPageSize

\* --------------------------------------------------------- pure arithmetic
\* A std::size_t is held as the integer congruent to it modulo 2^64 that lies
\* in [-2^63, 2^63): -k stands for 2^64 - k, sums and differences wrap as the
\* 64-bit ones do, and BitAnd reads a negative left operand in two's
\* complement (x % 2 is its low bit, x \div 2 the arithmetic shift).
\* a > b on std::size_t.
SizeGreater(a, b) == IF (a < 0) = (b < 0) THEN a > b ELSE a < 0

RECURSIVE BitAnd(_, _)
BitAnd(x, y) ==
  IF x = 0 \/ y = 0 THEN 0
  ELSE (x % 2) * (y % 2) + 2 * BitAnd(x \div 2, y \div 2)

IsPowerOfTwo(n) == n # 0 /\ BitAnd(n, n - 1) = 0

\* (n + alignment - 1) & ~(alignment - 1); m & ~k is m - (m & k).
AlignUp(n, alignment) ==
  IF n = 0 \/ alignment = 0 THEN 0
  ELSE (n + alignment - 1) - BitAnd(n + alignment - 1, alignment - 1)

\* The alignment test without its word-size bound.
IsValidAlignmentAnyPowerOfTwo(alignment) == IsPowerOfTwo(alignment)

IsValidAlignment(alignment) ==
  alignment >= kMinimumAlignment /\ IsPowerOfTwo(alignment)

IsValidRequest(size, alignment) == size # 0 /\ IsValidAlignment(alignment)

IsValid(layout) == IsValidRequest(layout.size, layout.alignment)

Layout(size, alignment) == [size |-> size, alignment |-> alignment]

\* ------------------------------------------------------------ block headers
ZeroHeader == [size |-> 0, next |-> Null]

\* The header stored at address a; memory fresh from mmap reads as zero.
HeaderAt(mem, a) == IF a \in DOMAIN mem THEN mem[a] ELSE ZeroHeader

\* Store header h at address a.
WriteHeader(mem, a, h) == [x \in (DOMAIN mem) \cup {a} |-> IF x = a THEN h ELSE HeaderAt(mem, x)]

\* BlockHeader::Create: header->size = allocation.size, header->next = next.
Create(mem, base, size, next) == WriteHeader(mem, base, [size |-> size, next |-> next])

GetHeader(ptr) == ptr - GetBlockHeaderSize

\* bzero of the payload: every header stored inside it reads as zero after.
\* A header whose size is below the header size makes the length wrap.
ZeroBlockFaults(mem, header) ==
  header # Null /\ HeaderAt(mem, header).size < GetBlockHeaderSize

ZeroBlock(mem, header) ==
  IF header = Null THEN mem
  ELSE [x \in DOMAIN mem |->
          IF x >= header + GetBlockHeaderSize /\ x < header + HeaderAt(mem, header).size
          THEN ZeroHeader ELSE mem[x]]

\* Result of a search: kind is "fail" (Failure), "none" (nullopt), "pair" or
\* "hang" (the walk never ends).
Failed(f) == [kind |-> "fail", failure |-> f, prev |-> Null, header |-> Null]
NoPair == [kind |-> "none", failure |-> "", prev |-> Null, header |-> Null]
HeaderPair(header, prev) == [kind |-> "pair", failure |-> "", prev |-> prev, header |-> header]
Hangs == [kind |-> "hang", failure |-> "", prev |-> Null, header |-> Null]

RECURSIVE FirstFitWalk(_, _, _, _, _)
FirstFitWalk(mem, itr, prev, minimum_size, fuel) ==
  IF itr = Null THEN NoPair
  ELSE IF fuel = 0 THEN Hangs
  ELSE IF HeaderAt(mem, itr).size >= minimum_size THEN HeaderPair(itr, prev)
  ELSE FirstFitWalk(mem, HeaderAt(mem, itr).next, itr, minimum_size, fuel - 1)

FindBlockByFirstFit(mem, head, minimum_size) ==
  IF head = Null THEN Failed("HeaderIsNullptr")
  ELSE IF minimum_size = 0 THEN Failed("InvalidSize")
  ELSE FirstFitWalk(mem, head, Null, minimum_size, MaxWalk)

\* A comparison that also holds for equal sizes: the last of several equal
\* candidates wins.
CmpOrEqual(cmp, a, b) == IF cmp = "less" THEN a <= b ELSE a >= b

\* cmp is "less" (best fit) or "greater" (worst fit).
Cmp(cmp, a, b) == IF cmp = "less" THEN a < b ELSE a > b

RECURSIVE FitWalk(_, _, _, _, _, _, _)
FitWalk(mem, itr, prev, minimum_size, cmp, target, fuel) ==
  IF itr = Null THEN target
  ELSE IF fuel = 0 THEN Hangs
  ELSE
    LET sz == HeaderAt(mem, itr).size
        better == target.kind = "none" \/ Cmp(cmp, sz, HeaderAt(mem, target.header).size)
        t2 == IF sz >= minimum_size /\ better THEN HeaderPair(itr, prev) ELSE target
    IN FitWalk(mem, HeaderAt(mem, itr).next, itr, minimum_size, cmp, t2, fuel - 1)

FindBlockByFit(mem, head, minimum_size, cmp) ==
  IF head = Null THEN Failed("HeaderIsNullptr")
  ELSE IF minimum_size = 0 THEN Failed("InvalidSize")
  ELSE FitWalk(mem, head, Null, minimum_size, cmp, NoPair, MaxWalk)

FindBlockByBestFit(mem, head, minimum_size) == FindBlockByFit(mem, head, minimum_size, "less")

FindBlockByWorstFit(mem, head, minimum_size) == FindBlockByFit(mem, head, minimum_size, "greater")

RECURSIVE PriorWalk(_, _, _, _)
PriorWalk(mem, itr, block, fuel) ==
  LET nxt == HeaderAt(mem, itr).next IN
  IF nxt # Null /\ nxt < block
  THEN IF fuel = 0 THEN [kind |-> "hang", prior |-> Null]
       ELSE PriorWalk(mem, nxt, block, fuel - 1)
  ELSE [kind |-> "ok", prior |-> itr]

\* A FindPriorBlock that never walks the list: every returned block is
\* taken to belong at the head.
FindPriorBlockAlwaysHead(mem, head, block) ==
  IF block = Null \/ head = Null THEN [kind |-> "fail", prior |-> Null]
  ELSE [kind |-> "ok", prior |-> Null]

FindPriorBlock(mem, head, block) ==
  IF block = Null \/ head = Null THEN [kind |-> "fail", prior |-> Null]
  ELSE IF head >= block THEN [kind |-> "ok", prior |-> Null]
  ELSE PriorWalk(mem, head, block, MaxWalk)

\* A SplitBlock that carves the new header but leaves block->size as it was.
SplitBlockKeepsSize(mem, block, bytes_needed, alignment) ==
  LET total_bytes_needed == AlignUp(bytes_needed, alignment)
      old == HeaderAt(mem, block)
      new_header == block + total_bytes_needed
      m1 == WriteHeader(ZeroBlock(mem, block), new_header,
              [size |-> old.size - total_bytes_needed, next |-> old.next])
  IN IF block = Null \/ bytes_needed = 0 \/ ~IsValidAlignment(alignment)
     THEN [kind |-> "fail", failure |-> "Internal", new_header |-> Null, mem |-> mem]
     ELSE IF SizeGreater(AlignUp(GetBlockHeaderSize + 1, alignment),
                         old.size - total_bytes_needed)
     THEN [kind |-> "ok", failure |-> "", new_header |-> Null, mem |-> mem]
     ELSE [kind |-> "ok", failure |-> "", new_header |-> new_header,
           mem |-> WriteHeader(m1, block, [size |-> old.size, next |-> new_header])]

\* SplitBlock: kind "fail" with the Failure, or "ok" with the new header (Null:
\* no split). new_block_size is a std::size_t: when the block is smaller than
\* total_bytes_needed the difference wraps and passes the minimum-size test.
SplitBlock(mem, block, bytes_needed, alignment) ==
  IF block = Null
  THEN [kind |-> "fail", failure |-> "HeaderIsNullptr", new_header |-> Null, mem |-> mem]
  ELSE IF bytes_needed = 0
  THEN [kind |-> "fail", failure |-> "InvalidSize", new_header |-> Null, mem |-> mem]
  ELSE IF ~IsValidAlignment(alignment)
  THEN [kind |-> "fail", failure |-> "InvalidAlignment", new_header |-> Null, mem |-> mem]
  ELSE
    LET total_bytes_needed == AlignUp(bytes_needed, alignment)
        new_block_size == HeaderAt(mem, block).size - total_bytes_needed
    IN IF SizeGreater(AlignUp(GetBlockHeaderSize + 1, alignment), new_block_size)
       THEN [kind |-> "ok", failure |-> "", new_header |-> Null, mem |-> mem]
       ELSE
         LET zeroed == ZeroBlock(mem, block)
             new_header == block + total_bytes_needed
             m1 == WriteHeader(zeroed, new_header,
                     [size |-> new_block_size, next |-> HeaderAt(zeroed, block).next])
             m2 == WriteHeader(m1, block, [size |-> total_bytes_needed, next |-> new_header])
         IN [kind |-> "ok", failure |-> "", new_header |-> new_header, mem |-> m2]

\* A merging loop that stops after the first successor it absorbs.
CoalesceLoopOnce(mem, block, fuel) ==
  LET h == HeaderAt(mem, block)
      n == HeaderAt(mem, h.next)
  IN IF h.next = block + h.size
     THEN [kind |-> "ok",
           mem |-> WriteHeader(mem, block, [size |-> h.size + n.size, next |-> n.next])]
     ELSE [kind |-> "ok", mem |-> mem]

\* A CoalesceBlock that clears the payload and merges nothing.
CoalesceBlockZeroOnly(mem, block) ==
  IF block = Null THEN [kind |-> "fail", failure |-> "HeaderIsNullptr", mem |-> mem]
  ELSE [kind |-> "ok", mem |-> ZeroBlock(mem, block)]

\* The merging loop of CoalesceBlock.
RECURSIVE CoalesceLoop(_, _, _)
CoalesceLoop(mem, block, fuel) ==
  LET h == HeaderAt(mem, block) IN
  IF h.next = block + h.size
  THEN IF fuel = 0 THEN [kind |-> "hang", mem |-> mem]
       ELSE LET n == HeaderAt(mem, h.next)
            IN CoalesceLoop(WriteHeader(mem, block, [size |-> h.size + n.size, next |-> n.next]),
                            block, fuel - 1)
  ELSE [kind |-> "ok", mem |-> mem]

CoalesceBlock(mem, block) ==
  IF block = Null THEN [kind |-> "fail", failure |-> "HeaderIsNullptr", mem |-> mem]
  ELSE LET r == CoalesceLoop(mem, block, MaxWalk)
       IN IF r.kind = "hang" THEN r
          ELSE IF ZeroBlockFaults(r.mem, block) THEN [kind |-> "crash", mem |-> r.mem]
          ELSE [kind |-> "ok", mem |-> ZeroBlock(r.mem, block)]


\* ------------------------------------------------------------------ state
VARIABLES
  kSearchStrategy,  \* FreeList: FindBy chosen at instantiation
  block_,           \* FreeList: provider block backing the allocator
  free_list_,       \* FreeList: head of the free list
  hdr,              \* header memory: address -> [size, next]
  outstanding,      \* pointers handed out by Find and not yet given back
  fl_finds,         \* number of successful Finds so far
  fl_last,          \* the last call on the FreeList and its result
  fl_order,         \* the outstanding pointers in the order Find handed them out
  pv_head,          \* UnsynchronizedPage: head_ block array (Null if none)
  pv_entries,       \* UnsynchronizedPage: ranges held by the block array
  pv_unmapped,      \* addresses given back to the OS by ReturnPages
  mmap_next         \* next address the OS maps

flvars == <<kSearchStrategy, block_, free_list_, hdr, outstanding, fl_finds,
            fl_last, fl_order, pv_head, pv_entries, pv_unmapped, mmap_next>>

VARIABLES
  anchor_,          \* LockFreePage: packed anchor [status, head, available]
  descriptors,      \* LockFreePage: the descriptor array of the heap
  heap_,            \* LockFreePage: TRUE once heap_ holds the mapping
  pg,               \* per thread: position in Provide/Return and its locals
  pg_held,          \* per thread: the page addresses it holds
  pg_holds,         \* per page address: how many callers hold it
  pg_calls,         \* number of Provide and Return calls started
  pg_released       \* the free pages that were given back, last release first

pgvars == <<anchor_, descriptors, heap_, pg, pg_held, pg_holds, pg_calls, pg_released>>

VARIABLES
  kGrowWhenFull,    \* LockFreeBump: TRUE for WhenFull::GrowStorage
  active_,          \* LockFreeBump: packed BlockDescriptor
  block_table_,     \* LockFreeBump: index -> block address (Null if unset)
  bp,               \* per thread: position in Find and its locals
  bp_calls,         \* number of Find calls started
  bp_regions,       \* regions [ptr, take] handed out by successful Finds
  bp_clash          \* TRUE once a Find handed out bytes of an earlier region

bpvars == <<kGrowWhenFull, active_, block_table_, bp, bp_calls, bp_regions, bp_clash>>

VARIABLES
  occupied,         \* BlockMap: header.occupied, the set of slots in use
  bm_table,         \* BlockMap: table, slot -> stored range
  bm_live,          \* ranges inserted and not yet taken
  bm_last,          \* the last Insert or Take and its answer
  st_held,          \* Static: per borrower, how often it holds the block
  st_calls,         \* Static: calls made so far
  st_last           \* Static: the last call and its answer

bmvars == <<occupied, bm_table, bm_live, bm_last>>

stvars == <<st_held, st_calls, st_last>>

auxvars == <<bmvars, stvars>>

vars == <<flvars, pgvars, bpvars, auxvars>>

\* ------------------------------------------------------ internal::BlockMap
\* GetCapacity(): the slots of the bm_table, scaled down.
MapCapacity == 4

\* std::hash<std::uint64_t> is the identity in libstdc++ and libc++.
Hash(key) == key

\* Keys used: three that hash to the same start slot and one that does not.
BmKeys == {1, 1 + MapCapacity, 1 + 2 * MapCapacity, 2}

\* Page counts stored with a key.
BmCounts == {1, 2}

VirtualAddressRange(address, count) == [address |-> address, count |-> count]

NoRange == [address |-> Null, count |-> 0]

BmInit ==
  /\ occupied = {}
  /\ bm_table = [i \in 0..(MapCapacity - 1) |-> NoRange]
  /\ bm_live = {}
  /\ bm_last = [op |-> "None", key |-> Null, res |-> NoRange, ok |-> TRUE, stored |-> NoRange]

\* The slots in probe order from startIndex.
ProbeSlot(startIndex, d) == (startIndex + d) % MapCapacity

\* BlockMap::Insert: the first slot from the start slot that is not occupied;
\* MapCapacity when the probe is back at the start.
InsertSlot(key) ==
  LET startIndex == Hash(key) % MapCapacity
      free == {d \in 0..(MapCapacity - 1) : ProbeSlot(startIndex, d) \notin occupied}
  IN IF free = {} THEN MapCapacity
     ELSE ProbeSlot(startIndex, CHOOSE d \in free : \A e \in free : d <= e)

\* BlockMap::Locate: empty slots are passed over; the first occupied slot
\* answers, with its index when it holds the address and with nullopt when it
\* holds another one.  MapCapacity stands for nullopt.
Locate(address) ==
  LET startIndex == Hash(address) % MapCapacity
      used == {d \in 0..(MapCapacity - 1) : ProbeSlot(startIndex, d) \in occupied}
  IN IF used = {} THEN MapCapacity
     ELSE LET probeIndex == ProbeSlot(startIndex, CHOOSE d \in used : \A e \in used : d <= e)
          IN IF bm_table[probeIndex].address = address THEN probeIndex ELSE MapCapacity

\* The range recorded for key, NoRange when there is none.
Stored(key) ==
  IF \E r \in bm_live : r.address = key
  THEN CHOOSE r \in bm_live : r.address = key
  ELSE NoRange

\* Insert(va_range) of a key that is not in the map.
BmInsert(key, count) ==
  \E probeIndex \in {InsertSlot(key)} :
  /\ Stored(key) = NoRange
  /\ IF probeIndex = MapCapacity
     THEN /\ UNCHANGED <<occupied, bm_table, bm_live>>
          /\ bm_last' = [op |-> "Insert", key |-> key, res |-> NoRange, ok |-> FALSE,
                         stored |-> NoRange]
     ELSE /\ bm_table' = [bm_table EXCEPT ![probeIndex] = VirtualAddressRange(key, count)]
          /\ occupied' = occupied \cup {probeIndex}
          /\ bm_live' = bm_live \cup {VirtualAddressRange(key, count)}
          /\ bm_last' = [op |-> "Insert", key |-> key, res |-> NoRange, ok |-> TRUE,
                         stored |-> NoRange]
  /\ UNCHANGED <<flvars, pgvars, bpvars, stvars>>

\* Take(key) of any key, stored or not.
BmTake(key) ==
  \E index \in {Locate(key)} :
  /\ IF index = MapCapacity
     THEN /\ UNCHANGED <<occupied, bm_table, bm_live>>
          /\ bm_last' = [op |-> "Take", key |-> key, res |-> NoRange, ok |-> FALSE,
                         stored |-> Stored(key)]
     ELSE /\ occupied' = occupied \ {index}
          /\ bm_live' = bm_live \ {bm_table[index]}
          /\ UNCHANGED bm_table
          /\ bm_last' = [op |-> "Take", key |-> key, res |-> bm_table[index], ok |-> TRUE,
                         stored |-> Stored(key)]
  /\ UNCHANGED <<flvars, pgvars, bpvars, stvars>>

BmInsertStep == \E key \in BmKeys, count \in BmCounts : BmInsert(key, count)

BmTakeStep == \E key \in BmKeys : BmTake(key)

\* -------------------------------------------------------- provider::Static
\* Borrowers of the static block.
StBorrowers == 2

\* Number of Provide and Return calls explored.
MaxStCalls == 4

StBorrowerIds == 1..StBorrowers

\* AsPtr(): the address of block_[0].
AsPtr == 4 * GetPageSize

StInit ==
  /\ st_held = [b \in StBorrowerIds |-> 0]
  /\ st_calls = 0
  /\ st_last = [op |-> "None", by |-> 0, arg |-> 0, res |-> "None", ptr |-> Null, out |-> 0]

\* How many times the block is out.
RECURSIVE StSum(_)
StSum(B) == IF B = {} THEN 0 ELSE LET b == CHOOSE x \in B : TRUE IN st_held[b] + StSum(B \ {b})

StOut == StSum(StBorrowerIds)

\* Static::Provide(count).
StaticProvide(count) ==
  IF count # 1 THEN [res |-> "InvalidInput", ptr |-> Null]
  ELSE [res |-> "Ok", ptr |-> AsPtr]

\* Static::Return(ptr).
StaticReturn(ptr) == IF ptr # AsPtr THEN "InvalidInput" ELSE "Ok"

StProvide(b, count) ==
  \E r \in {StaticProvide(count)} :
  /\ st_calls < MaxStCalls
  /\ st_calls' = st_calls + 1
  /\ st_held' = IF r.res = "Ok" THEN [st_held EXCEPT ![b] = @ + 1] ELSE st_held
  /\ st_last' = [op |-> "Provide", by |-> b, arg |-> count, res |-> r.res, ptr |-> r.ptr,
                 out |-> StOut]
  /\ UNCHANGED <<flvars, pgvars, bpvars, bmvars>>

\* A borrower gives back the block it holds, or passes another address.
StReturn(b, ptr) ==
  \E res \in {StaticReturn(ptr)} :
  /\ st_calls < MaxStCalls
  /\ st_calls' = st_calls + 1
  /\ ptr = AsPtr => st_held[b] > 0
  /\ st_held' = IF res = "Ok" THEN [st_held EXCEPT ![b] = @ - 1] ELSE st_held
  /\ st_last' = [op |-> "Return", by |-> b, arg |-> ptr, res |-> res, ptr |-> Null,
                 out |-> StOut]
  /\ UNCHANGED <<flvars, pgvars, bpvars, bmvars>>

StProvideStep == \E b \in StBorrowerIds, count \in 0..2 : StProvide(b, count)

StReturnStep == \E b \in StBorrowerIds, ptr \in {Null, AsPtr, AsPtr + 1} : StReturn(b, ptr)

AuxInit == BmInit /\ StInit

\* ------------------------------------------- provider::UnsynchronizedPage
\* VirtualAddressRange keeps the page count in 16 bits.
kMaxPageCount == 65535

\* BlockArray<Size, T>::kCapacity with Size a page and T a packed range.
kCapacity == (GetPageSize - 16) \div AlignUp(8, 8)

\* internal::FetchPages: a fresh page-aligned mapping of count pages.
FetchPages(brk, count, ok) ==
  IF count = 0 \/ ~ok THEN [ok |-> FALSE, base |-> Null, brk |-> brk]
  ELSE [ok |-> TRUE, base |-> brk, brk |-> brk + count * GetPageSize]

\* The strategy-visible state as one record.
FLState ==
  [block |-> block_, free |-> free_list_, mem |-> hdr, head |-> pv_head,
   entries |-> pv_entries, unmapped |-> pv_unmapped, brk |-> mmap_next]

\* UnsynchronizedPage::Provide; ok1/ok2 are the outcomes of the two mmaps.
Provide(s, count, ok1, ok2) ==
  IF count = 0 \/ count > kMaxPageCount THEN [err |-> "InvalidInput", ptr |-> Null, s |-> s]
  ELSE
    LET outOfSpace == s.head = Null \/ Len(s.entries) = kCapacity
        arr == FetchPages(s.brk, 1, ok1)
    IN IF outOfSpace /\ ~arr.ok THEN [err |-> "Internal", ptr |-> Null, s |-> s]
       ELSE
         LET s1 == IF outOfSpace
                   THEN [s EXCEPT !.head = arr.base, !.entries = <<>>, !.brk = arr.brk]
                   ELSE s
             rng == FetchPages(s1.brk, count, ok2)
         IN IF ~rng.ok THEN [err |-> "Internal", ptr |-> Null, s |-> s1]
            ELSE [err |-> "Ok", ptr |-> rng.base,
                  s |-> [s1 EXCEPT !.entries = Append(@, rng.base), !.brk = rng.brk]]

\* UnsynchronizedPage::Return: the walk over the block arrays never advances,
\* so a miss in a non-empty chain does not terminate.
ProviderReturn(s, bytes) ==
  IF bytes = Null THEN [err |-> "InvalidInput", s |-> s]
  ELSE IF s.head = Null THEN [err |-> "InvalidInput", s |-> s]
  ELSE IF \E i \in 1..Len(s.entries) : s.entries[i] = bytes
       THEN [err |-> "Ok",
             s |-> [s EXCEPT !.entries = SelectSeq(@, LAMBDA e : e # bytes),
                             !.unmapped = @ \cup {bytes}]]
       ELSE [err |-> "Hang", s |-> s]

\* ------------------------------------------------------ strategy::FreeList
\* GetAlignedSize() is Provider::GetBlockSize().
GetAlignedSize == GetPageSize

FindBy == {"FirstFit", "BestFit", "WorstFit"}

GetFindBlockFn(mem, head, minimum_size) ==
  IF kSearchStrategy = "FirstFit" THEN FindBlockByFirstFit(mem, head, minimum_size)
  ELSE IF kSearchStrategy = "BestFit" THEN FindBlockByBestFit(mem, head, minimum_size)
  ELSE FindBlockByWorstFit(mem, head, minimum_size)

\* InitBlockIfUnset once AllocateNewBlock has answered base_or: block_ gets
\* the whole block, free_list_ the block past its first header.
InitBlock(base_or) ==
  IF base_or.err # "Ok" THEN [err |-> base_or.err, s |-> base_or.s]
  ELSE
    LET m1 == Create(base_or.s.mem, base_or.ptr, GetAlignedSize, Null) IN
    [err |-> "Ok",
     s |-> [base_or.s EXCEPT
              !.block = base_or.ptr,
              !.free = base_or.ptr + GetBlockHeaderSize,
              !.mem = WriteHeader(m1, base_or.ptr + GetBlockHeaderSize,
                        [size |-> HeaderAt(m1, base_or.ptr).size - GetBlockHeaderSize,
                         next |-> Null])]]

\* AllocateNewBlock + InitBlockIfUnset.
InitBlockIfUnset(s, ok1, ok2) ==
  IF s.block # Null THEN [err |-> "Ok", s |-> s]
  ELSE InitBlock(Provide(s, GetAlignedSize, ok1, ok2))

\* Find after SplitBlock: unlink the chosen header and hand out its payload.
FindUnlink(s1, first_fit, split) ==
  IF split.kind = "fail" THEN [err |-> "Internal", ptr |-> Null, s |-> s1]
  ELSE
    LET m1 == IF first_fit.header # s1.free /\ first_fit.prev # Null
              THEN WriteHeader(split.mem, first_fit.prev,
                     [HeaderAt(split.mem, first_fit.prev) EXCEPT !.next = split.new_header])
              ELSE split.mem
    IN [err |-> "Ok", ptr |-> first_fit.header + GetBlockHeaderSize,
        s |-> [s1 EXCEPT
                 !.free = IF first_fit.header = s1.free THEN split.new_header ELSE s1.free,
                 !.mem = WriteHeader(m1, first_fit.header,
                           [HeaderAt(m1, first_fit.header) EXCEPT !.next = Null])]]

\* Find after the search of the free list.
FindSplit(s1, layout, request_size, first_fit) ==
  IF first_fit.kind = "hang" THEN [err |-> "Hang", ptr |-> Null, s |-> s1]
  ELSE IF first_fit.kind = "fail" THEN [err |-> "Internal", ptr |-> Null, s |-> s1]
  ELSE IF first_fit.kind = "none" THEN [err |-> "NoFreeBlock", ptr |-> Null, s |-> s1]
  ELSE FindUnlink(s1, first_fit,
                  SplitBlock(s1.mem, first_fit.header, request_size, layout.alignment))

\* Find after InitBlockIfUnset: reading a block the OS took back faults.
FindSearch(init, layout, request_size) ==
  IF init.err # "Ok" THEN [err |-> init.err, ptr |-> Null, s |-> init.s]
  ELSE IF init.s.block \in init.s.unmapped THEN [err |-> "Crash", ptr |-> Null, s |-> init.s]
  ELSE FindSplit(init.s, layout, request_size,
                 GetFindBlockFn(init.s.mem, init.s.free, request_size))

\* FreeList::Find(Layout): the error (or "Ok"), the pointer and the state after.
Find(s, layout, ok1, ok2) ==
  IF ~IsValid(layout) THEN [err |-> "InvalidInput", ptr |-> Null, s |-> s]
  ELSE IF SizeGreater(AlignUp(layout.size + GetBlockHeaderSize, layout.alignment),
                      GetAlignedSize)
  THEN [err |-> "SizeRequestTooLarge", ptr |-> Null, s |-> s]
  ELSE FindSearch(InitBlockIfUnset(s, ok1, ok2), layout,
                  AlignUp(layout.size + GetBlockHeaderSize, layout.alignment))

\* ReleaseAllBlocks(block_) through ReleaseBlockList; its result is dropped.
ReleaseAllBlocks(s, block) ==
  IF block = Null THEN [err |-> "Internal", s |-> s]
  ELSE LET next == HeaderAt(s.mem, block).next
           r == ProviderReturn(s, block)
       IN IF r.err = "Hang" THEN r
          ELSE IF r.err # "Ok" THEN [err |-> "Internal", s |-> r.s]
          ELSE IF next = Null THEN [err |-> "Ok", s |-> r.s]
          ELSE [err |-> "Crash", s |-> r.s]

\* The tail of FreeList::Return after coalescing.
ReturnTail(s) ==
  IF HeaderAt(s.mem, s.free).size = GetAlignedSize
  THEN LET r == ReleaseAllBlocks(s, s.block)
       IN IF r.err \in {"Hang", "Crash"} THEN [err |-> r.err, s |-> r.s]
          ELSE [err |-> "Ok", s |-> r.s]
  ELSE [err |-> "Ok", s |-> s]

\* FreeList::Return(ptr).
Return(s, ptr) ==
  IF ptr = Null THEN [err |-> "InvalidInput", s |-> s]
  ELSE IF s.block = Null \/ s.block \in s.unmapped THEN [err |-> "Crash", s |-> s]
  ELSE
    LET low == s.block
        high == s.block + HeaderAt(s.mem, s.block).size
    IN
    IF ptr < low \/ ptr > high THEN [err |-> "InvalidInput", s |-> s]
    ELSE
      LET block == GetHeader(ptr) IN
      IF s.free = Null THEN [err |-> "Ok", s |-> [s EXCEPT !.free = block]]
      ELSE
        LET prior_or == FindPriorBlock(s.mem, s.free, block) IN
        IF prior_or.kind = "hang" THEN [err |-> "Hang", s |-> s]
        ELSE IF prior_or.kind = "fail" THEN [err |-> "Ok", s |-> s]
        ELSE
          LET prior == prior_or.prior IN
          IF prior # Null
          THEN
            LET next == HeaderAt(s.mem, prior).next
                m1 == WriteHeader(s.mem, prior, [HeaderAt(s.mem, prior) EXCEPT !.next = block])
                m2 == WriteHeader(m1, block, [HeaderAt(m1, block) EXCEPT !.next = next])
                c == CoalesceBlock(m2, prior)
            IN IF c.kind = "hang" THEN [err |-> "Hang", s |-> [s EXCEPT !.mem = c.mem]]
               ELSE IF c.kind = "crash" THEN [err |-> "Crash", s |-> [s EXCEPT !.mem = c.mem]]
               ELSE IF c.kind = "fail" THEN [err |-> "Internal", s |-> [s EXCEPT !.mem = c.mem]]
               ELSE ReturnTail([s EXCEPT !.mem = c.mem])
          ELSE
            LET m1 == WriteHeader(s.mem, block, [HeaderAt(s.mem, block) EXCEPT !.next = s.free])
                c == CoalesceBlock(m1, block)
                s2 == [s EXCEPT !.free = block, !.mem = c.mem]
            IN IF c.kind = "hang" THEN [err |-> "Hang", s |-> s2]
               ELSE IF c.kind = "crash" THEN [err |-> "Crash", s |-> s2]
               ELSE IF c.kind = "fail" THEN [err |-> "Internal", s |-> s2]
               ELSE ReturnTail(s2)


\* ------------------------------------------------------- FreeList: clients
\* Layouts the clients request: valid ones, a zero size, a sub-word and a
\* non-power-of-two alignment, and a size above the block size.
FLLayouts ==
  {Layout(0, 8), Layout(8, 4), Layout(8, 24), Layout(8, 8), Layout(8, 64),
   Layout(4064, 8), Layout(4080, 8), Layout(4088, 8)}

\* Outcomes of the two mmap calls of a Provide: both are only made when the
\* strategy has no block yet.
MmapOutcomes == IF block_ = Null THEN {<<FALSE, FALSE>>, <<TRUE, FALSE>>, <<TRUE, TRUE>>}
                ELSE {<<TRUE, TRUE>>}

NoCall == [op |-> "None", size |-> 0, alignment |-> 0, ptr |-> Null, err |-> "Ok"]

FLRunning == fl_last.err \notin {"Hang", "Crash"}

FLInit ==
  /\ kSearchStrategy \in FindBy
  /\ block_ = Null
  /\ free_list_ = Null
  /\ hdr = <<>>
  /\ outstanding = {}
  /\ fl_finds = 0
  /\ fl_last = NoCall
  /\ fl_order = <<>>
  /\ pv_head = Null
  /\ pv_entries = <<>>
  /\ pv_unmapped = {}
  /\ mmap_next = MmapBase

FLApply(s) ==
  /\ block_' = s.block
  /\ free_list_' = s.free
  /\ hdr' = s.mem
  /\ pv_head' = s.head
  /\ pv_entries' = s.entries
  /\ pv_unmapped' = s.unmapped
  /\ mmap_next' = s.brk

\* A client calls Find(Layout(size, alignment)).
FLFind(size, alignment, ok1, ok2) ==
  \E r \in {Find(FLState, Layout(size, alignment), ok1, ok2)} :
  /\ FLRunning
  /\ r.err = "Ok" => fl_finds < MaxFinds
  /\ FLApply(r.s)
  /\ outstanding' = IF r.err = "Ok" THEN outstanding \cup {r.ptr} ELSE outstanding
  /\ fl_finds' = IF r.err = "Ok" THEN fl_finds + 1 ELSE fl_finds
  /\ fl_order' = IF r.err = "Ok" THEN Append(fl_order, r.ptr) ELSE fl_order
  /\ fl_last' = [op |-> "Find", size |-> size, alignment |-> alignment,
                 ptr |-> r.ptr, err |-> r.err]
  /\ UNCHANGED <<kSearchStrategy, pgvars, bpvars, auxvars>>

\* A client gives back a pointer it holds (or the null pointer).
FLReturn(ptr) ==
  \E r \in {Return(FLState, ptr)} :
  /\ FLRunning
  /\ ptr \in outstanding \cup {Null}
  /\ FLApply(r.s)
  /\ outstanding' = outstanding \ {ptr}
  /\ fl_order' = SelectSeq(fl_order, LAMBDA q : q # ptr)
  /\ fl_last' = [op |-> "Return", size |-> 0, alignment |-> 0, ptr |-> ptr, err |-> r.err]
  /\ UNCHANGED <<kSearchStrategy, fl_finds, pgvars, bpvars, auxvars>>

\* A client gives back, a second time, the pointer it has just given back.
FLReturnAgain ==
  \E ptr \in {fl_last.ptr} : \E r \in {Return(FLState, ptr)} :
  /\ FLRunning
  /\ fl_last.op = "Return" /\ fl_last.err = "Ok" /\ ptr # Null
  /\ FLApply(r.s)
  /\ fl_last' = [op |-> "ReturnAgain", size |-> 0, alignment |-> 0, ptr |-> ptr, err |-> r.err]
  /\ UNCHANGED <<kSearchStrategy, fl_finds, outstanding, fl_order, pgvars, bpvars, auxvars>>

\* The test's client: N Finds of sizeof(long), then the N pointers given back
\* in insertion order, then one Find of kBlockSize - header_size.
SizeOfT == 8
kChunkSize == SizeOfT + GetBlockHeaderSize
kBlockSize == GetPageSize
ChunkCount == kBlockSize \div kChunkSize

ScFill ==
  \E r \in {Find(FLState, Layout(SizeOfT, kMinimumAlignment), TRUE, TRUE)} :
  /\ fl_last.op \in {"None", "Find"} /\ fl_last.err = "Ok"
  /\ fl_finds < ChunkCount
  /\ FLApply(r.s)
  /\ outstanding' = IF r.err = "Ok" THEN outstanding \cup {r.ptr} ELSE outstanding
  /\ fl_finds' = IF r.err = "Ok" THEN fl_finds + 1 ELSE fl_finds
  /\ fl_order' = IF r.err = "Ok" THEN Append(fl_order, r.ptr) ELSE fl_order
  /\ fl_last' = [op |-> "Find", size |-> SizeOfT, alignment |-> kMinimumAlignment,
                 ptr |-> r.ptr, err |-> r.err]
  /\ UNCHANGED <<kSearchStrategy, pgvars, bpvars, auxvars>>

ScRelease ==
  \E r \in {Return(FLState, IF fl_order = <<>> THEN Null ELSE Head(fl_order))} :
  /\ fl_finds = ChunkCount /\ fl_order # <<>>
  /\ fl_last.op \in {"Find", "Return"} /\ fl_last.err = "Ok"
  /\ FLApply(r.s)
  /\ outstanding' = outstanding \ {Head(fl_order)}
  /\ fl_order' = Tail(fl_order)
  /\ fl_last' = [op |-> "Return", size |-> 0, alignment |-> 0,
                 ptr |-> Head(fl_order), err |-> r.err]
  /\ UNCHANGED <<kSearchStrategy, fl_finds, pgvars, bpvars, auxvars>>

ScRefill ==
  \E r \in {Find(FLState, Layout(kBlockSize - GetBlockHeaderSize, kMinimumAlignment),
                 TRUE, TRUE)} :
  /\ fl_finds = ChunkCount /\ fl_order = <<>>
  /\ fl_last.op = "Return" /\ fl_last.err = "Ok"
  /\ FLApply(r.s)
  /\ outstanding' = IF r.err = "Ok" THEN outstanding \cup {r.ptr} ELSE outstanding
  /\ fl_finds' = IF r.err = "Ok" THEN fl_finds + 1 ELSE fl_finds
  /\ fl_order' = IF r.err = "Ok" THEN Append(fl_order, r.ptr) ELSE fl_order
  /\ fl_last' = [op |-> "Refill", size |-> kBlockSize - GetBlockHeaderSize,
                 alignment |-> kMinimumAlignment, ptr |-> r.ptr, err |-> r.err]
  /\ UNCHANGED <<kSearchStrategy, pgvars, bpvars, auxvars>>

\* Pointers that no Find handed out: below the block, one past its end
\* (block_base + block_size) and beyond; any address while there is no block.
FLForeignPtrs ==
  IF block_ = Null THEN {MmapBase + kMinimumAlignment}
  ELSE {block_ - kMinimumAlignment, block_ + GetAlignedSize,
        block_ + GetAlignedSize + kMinimumAlignment}

\* A client calls Return with a pointer it never got from Find.
FLReturnForeign ==
  \E ptr \in FLForeignPtrs : \E r \in {Return(FLState, ptr)} :
  /\ FLRunning
  /\ FLApply(r.s)
  /\ fl_last' = [op |-> "ReturnForeign", size |-> 0, alignment |-> 0, ptr |-> ptr, err |-> r.err]
  /\ UNCHANGED <<kSearchStrategy, fl_finds, outstanding, fl_order, pgvars, bpvars, auxvars>>

FLFindStep == \E layout \in FLLayouts, ok \in MmapOutcomes :
                FLFind(layout.size, layout.alignment, ok[1], ok[2])

FLReturnStep == \E ptr \in outstanding \cup {Null} : FLReturn(ptr)

\* ----------------------------------------------- provider::LockFreePage
\* Threads calling the provider concurrently.
PgThreads == 2

\* Number of Provide and Return calls explored.
MaxPgCalls == 5

\* kDefaultLimit, (1 << 30) / GetPageSize() - 1 in the code, scaled down.
kDefaultLimit == 3

\* The configured page limit, LimitT<R>.
LimitT == 2

\* kLimit = std::max({kDefaultLimit, LimitT}): number of pages of the super
\* block (and the list's end marker).
kLimit == IF kDefaultLimit >= LimitT THEN kDefaultLimit ELSE LimitT

\* Base address of the super block (any page-aligned mapping).
PgSuperBase == 16 * GetPageSize

PgThreadIds == 1..PgThreads

PgPages == {PgSuperBase + i * GetPageSize : i \in 0..(kLimit - 1)}

\* head and available are 18-bit fields of the anchor.
Bits18(x) == x % 262144

Anchor(status, head, available) == [status |-> status, head |-> head, available |-> available]

PgIdle == [pc |-> "idle", op |-> "None", arg |-> 0, old |-> Anchor("Initial", 0, 0),
           new |-> Anchor("Initial", 0, 0), index |-> 0, res |-> "None"]

\* Thread t's call with its locals dead: the call and its argument stay on
\* record.
PgRec(t) == [PgIdle EXCEPT !.op = pg[t].op, !.arg = pg[t].arg]

PgInit ==
  /\ anchor_ = Anchor("Initial", 0, 0)
  /\ descriptors = [i \in 0..(kLimit - 1) |-> [next |-> 0, occupied |-> FALSE]]
  /\ heap_ = FALSE
  /\ pg = [t \in PgThreadIds |-> PgIdle]
  /\ pg_held = [t \in PgThreadIds |-> {}]
  /\ pg_holds = [p \in PgPages |-> 0]
  /\ pg_calls = 0
  /\ pg_released = <<>>

\* Move thread t to pc; the locals old/new are dead at a loop head.
PgGoto(t, pc) ==
  pg' = [pg EXCEPT ![t] = IF pc \in {"P_load", "R_load"}
                          THEN [PgRec(t) EXCEPT !.pc = pc, !.index = pg[t].index]
                          ELSE [@ EXCEPT !.pc = pc]]

\* Provide(count): the argument checks, then the first iteration of the loop.
PgProvideCall(t, count) ==
  /\ UNCHANGED <<auxvars, flvars, bpvars, pg_released>>
  /\ pg_calls < MaxPgCalls
  /\ pg_calls' = pg_calls + 1
  /\ pg[t].pc = "idle"
  /\ pg' = [pg EXCEPT ![t] =
       IF count = 0 \/ count > kLimit
       THEN [PgIdle EXCEPT !.op = "Provide", !.arg = count, !.res = "InvalidInput"]
       ELSE IF count # 1
       THEN [PgIdle EXCEPT !.op = "Provide", !.arg = count, !.res = "OperationNotSupported"]
       ELSE [PgIdle EXCEPT !.op = "Provide", !.arg = count, !.pc = "P_load"]]
  /\ UNCHANGED <<anchor_, descriptors, heap_, pg_held, pg_holds>>

\* old_anchor = anchor_.load() and the branches on it.
PgProvideLoad(t) ==
  /\ UNCHANGED <<auxvars, flvars, bpvars, pg_calls, pg_released>>
  /\ pg[t].pc = "P_load"
  /\ LET old == anchor_ IN
     pg' = [pg EXCEPT ![t] =
       IF old.status = "Initial" THEN [@ EXCEPT !.pc = "I_load"]
       ELSE IF old.status = "Allocating" THEN @
       ELSE IF old.available = 0 \/ old.head = kLimit
            THEN [PgRec(t) EXCEPT !.res = "NoFreeBlock"]
       ELSE [@ EXCEPT !.pc = "P_read", !.old = old]]
  /\ UNCHANGED <<anchor_, descriptors, heap_, pg_held, pg_holds>>

\* new_anchor.head = descriptors[old_anchor.head].next.
PgProvideRead(t) ==
  /\ UNCHANGED <<auxvars, flvars, bpvars, pg_calls, pg_released>>
  /\ pg[t].pc = "P_read"
  /\ LET old == pg[t].old IN
     pg' = [pg EXCEPT ![t].pc = "P_cas",
                      ![t].new = [old EXCEPT !.available = Bits18(old.available - 1),
                                             !.head = Bits18(descriptors[old.head].next)]]
  /\ UNCHANGED <<anchor_, descriptors, heap_, pg_held, pg_holds>>

\* compare_exchange_weak(old_anchor, new_anchor): success, or another turn.
PgProvideCas(t) ==
  /\ UNCHANGED <<auxvars, flvars, bpvars, pg_calls, pg_released>>
  /\ pg[t].pc = "P_cas"
  /\ \/ /\ anchor_ = pg[t].old
        /\ anchor_' = pg[t].new
        /\ PgGoto(t, "P_mark")
     \/ /\ UNCHANGED anchor_
        /\ PgGoto(t, "P_load")
  /\ UNCHANGED <<descriptors, heap_, pg_held, pg_holds>>

\* The winner marks the descriptor and returns the page's address.
PgProvideMark(t) ==
  /\ UNCHANGED <<auxvars, flvars, bpvars, pg_calls>>
  /\ pg[t].pc = "P_mark"
  /\ LET head == pg[t].old.head
         ptr == PgSuperBase + head * GetPageSize
     IN /\ descriptors' = [descriptors EXCEPT ![head] = [next |-> 0, occupied |-> TRUE]]
        /\ pg_held' = [pg_held EXCEPT ![t] = @ \cup {ptr}]
        /\ pg_holds' = [pg_holds EXCEPT ![ptr] = @ + 1]
        /\ pg' = [pg EXCEPT ![t] = [PgRec(t) EXCEPT !.res = "Ok"]]
  /\ UNCHANGED <<anchor_, heap_>>
  /\ pg_released' = SelectSeq(pg_released,
                             LAMBDA q : q # PgSuperBase + pg[t].old.head * GetPageSize)

\* InitializeHeap: the load and its early return.
PgInitLoad(t) ==
  /\ UNCHANGED <<auxvars, flvars, bpvars, pg_calls, pg_released>>
  /\ pg[t].pc = "I_load"
  /\ pg' = [pg EXCEPT ![t] =
       IF anchor_.status # "Initial" THEN [PgRec(t) EXCEPT !.pc = "P_load"]
       ELSE [@ EXCEPT !.pc = "I_cas", !.old = anchor_,
                      !.new = [anchor_ EXCEPT !.status = "Allocating"]]]
  /\ UNCHANGED <<anchor_, descriptors, heap_, pg_held, pg_holds>>

\* InitializeHeap: the CAS to Allocating; a loser returns to Provide's loop.
PgInitCas(t) ==
  /\ UNCHANGED <<auxvars, flvars, bpvars, pg_calls, pg_released>>
  /\ pg[t].pc = "I_cas"
  /\ \/ /\ anchor_ = pg[t].old
        /\ anchor_' = pg[t].new
        /\ PgGoto(t, "I_fetch")
     \/ /\ UNCHANGED anchor_
        /\ PgGoto(t, "P_load")
  /\ UNCHANGED <<descriptors, heap_, pg_held, pg_holds>>

\* InitializeHeap: the two FetchPages calls and the linking of descriptors.
PgInitFetch(t, ok) ==
  /\ UNCHANGED <<auxvars, flvars, bpvars, pg_calls, pg_released>>
  /\ pg[t].pc = "I_fetch"
  /\ IF ~ok
     THEN /\ pg' = [pg EXCEPT ![t] = [PgRec(t) EXCEPT !.res = "OutOfMemory"]]
          /\ UNCHANGED <<descriptors, heap_>>
     ELSE /\ descriptors' = [i \in 0..(kLimit - 1) |-> [next |-> i + 1, occupied |-> FALSE]]
          /\ heap_' = TRUE
          /\ PgGoto(t, "I_store")
  /\ UNCHANGED <<anchor_, pg_held, pg_holds>>

\* InitializeHeap: anchor_.store(new_anchor) with status Allocated.
PgInitStore(t) ==
  /\ UNCHANGED <<auxvars, flvars, bpvars, pg_calls, pg_released>>
  /\ pg[t].pc = "I_store"
  /\ anchor_' = [pg[t].new EXCEPT !.available = Bits18(kLimit), !.status = "Allocated"]
  /\ PgGoto(t, "P_load")
  /\ UNCHANGED <<descriptors, heap_, pg_held, pg_holds>>

\* Return(p) of a page the thread holds (or of the null pointer).
PgReturnCall(t, p) ==
  /\ UNCHANGED <<auxvars, flvars, bpvars, pg_released>>
  /\ pg_calls < MaxPgCalls
  /\ pg_calls' = pg_calls + 1
  /\ pg[t].pc = "idle"
  /\ p \in pg_held[t] \cup {Null}
  /\ IF p = Null \/ ~heap_
     THEN /\ pg' = [pg EXCEPT ![t] = [PgIdle EXCEPT !.op = "Return", !.arg = p,
                                                    !.res = "InvalidInput"]]
          /\ UNCHANGED <<descriptors, pg_held, pg_holds>>
     ELSE LET index == (p - PgSuperBase) \div GetPageSize IN
          /\ descriptors' = [descriptors EXCEPT ![index].occupied = FALSE]
          /\ pg_held' = [pg_held EXCEPT ![t] = @ \ {p}]
          /\ pg_holds' = [pg_holds EXCEPT ![p] = @ - 1]
          /\ pg' = [pg EXCEPT ![t] = [PgIdle EXCEPT !.op = "Return", !.arg = p,
                                                    !.pc = "R_load", !.index = index]]
  /\ UNCHANGED <<anchor_, heap_>>

\* Return's new_anchor without the returned index as head.
PushedAnchorKeepsHead(old, index) == [old EXCEPT !.available = Bits18(old.available + 1)]

\* Return's new_anchor: the returned index is the head, one more is available.
PushedAnchor(old, index) ==
  [old EXCEPT !.head = Bits18(index), !.available = Bits18(old.available + 1)]

\* old_anchor = anchor_.load(); new_anchor gets the returned index as head.
PgReturnLoad(t) ==
  /\ UNCHANGED <<auxvars, flvars, bpvars, pg_calls, pg_released>>
  /\ pg[t].pc = "R_load"
  /\ pg' = [pg EXCEPT ![t].pc = "R_write", ![t].old = anchor_,
                      ![t].new = PushedAnchor(anchor_, pg[t].index)]
  /\ UNCHANGED <<anchor_, descriptors, heap_, pg_held, pg_holds>>

\* descriptors[index].next = old_anchor.head, before the CAS.
PgReturnWrite(t) ==
  /\ UNCHANGED <<auxvars, flvars, bpvars, pg_calls, pg_released>>
  /\ pg[t].pc = "R_write"
  /\ descriptors' = IF pg[t].index \in DOMAIN descriptors
                     THEN [descriptors EXCEPT ![pg[t].index].next = pg[t].old.head]
                     ELSE descriptors
  /\ PgGoto(t, "R_cas")
  /\ UNCHANGED <<anchor_, heap_, pg_held, pg_holds>>

PgReturnCas(t) ==
  /\ UNCHANGED <<auxvars, flvars, bpvars, pg_calls>>
  /\ pg[t].pc = "R_cas"
  /\ \/ /\ anchor_ = pg[t].old
        /\ anchor_' = pg[t].new
        /\ pg' = [pg EXCEPT ![t] = [PgRec(t) EXCEPT !.res = "Ok"]]
        /\ pg_released' = <<PgSuperBase + pg[t].index * GetPageSize>> \o pg_released
     \/ /\ UNCHANGED <<anchor_, pg_released>>
        /\ PgGoto(t, "R_load")
  /\ UNCHANGED <<descriptors, heap_, pg_held, pg_holds>>

PgStep(t) ==
  \/ \E count \in 0..2 : PgProvideCall(t, count)
  \/ PgProvideLoad(t)
  \/ PgProvideRead(t)
  \/ PgProvideCas(t)
  \/ PgProvideMark(t)
  \/ PgInitLoad(t)
  \/ PgInitCas(t)
  \/ \E ok \in BOOLEAN : PgInitFetch(t, ok)
  \/ PgInitStore(t)
  \/ \E p \in pg_held[t] \cup {Null} : PgReturnCall(t, p)
  \/ PgReturnLoad(t)
  \/ PgReturnWrite(t)
  \/ PgReturnCas(t)

PageNext == \E t \in PgThreadIds : PgStep(t)

\* ----------------------------------------------- strategy::LockFreeBump
\* Threads calling Find concurrently.
BpThreads == 2

\* Number of Find calls explored.
MaxBumpFinds == 3

BpThreadIds == 1..BpThreads

\* Every thread that may be inside Find at once: BpThreadIds and one more, which
\* only the runs about the index width let move.
BpRacerIds == 1..(BpThreads + 1)

\* kTotalEntryInBits: width of the descriptor's index, scaled down from 10 so
\* that BpThreads + 1 racing threads can publish more than 2^width blocks.
kTotalEntryInBits == 1

\* 2^kTotalEntryInBits and 2^25, the widths of index and offset.
IndexModulus == 2 ^ kTotalEntryInBits

OffsetModulus == 33554432

BlockDescriptor(initialized, index, size, offset) ==
  [initialized |-> initialized, index |-> index, size |-> size, offset |-> offset]

\* Layouts the bump clients request.
BpLayouts == {Layout(0, 8), Layout(8, 8), Layout(8, 16), Layout(4096, 8), Layout(4104, 8)}

\* LockFreePage::Provide(1) running without interference from other threads.
ProvideOnce(a, d, h, ok) ==
  LET a1 == IF a.status = "Initial" /\ ok THEN Anchor("Allocated", a.head, Bits18(kLimit)) ELSE a
      d1 == IF a.status = "Initial" /\ ok
            THEN [i \in 0..(kLimit - 1) |-> [next |-> i + 1, occupied |-> FALSE]] ELSE d
      h1 == h \/ (a.status = "Initial" /\ ok)
  IN
  IF a.status = "Initial" /\ ~ok
  THEN [err |-> "OutOfMemory", ptr |-> Null, anchor |-> [a EXCEPT !.status = "Allocating"],
        desc |-> d, heap |-> h]
  ELSE IF a.status = "Allocating"
  THEN [err |-> "Spin", ptr |-> Null, anchor |-> a, desc |-> d, heap |-> h]
  ELSE IF a1.available = 0 \/ a1.head = kLimit
  THEN [err |-> "NoFreeBlock", ptr |-> Null, anchor |-> a1, desc |-> d1, heap |-> h1]
  ELSE [err |-> "Ok", ptr |-> PgSuperBase + a1.head * GetPageSize,
        anchor |-> [a1 EXCEPT !.available = Bits18(a1.available - 1),
                              !.head = Bits18(d1[a1.head].next)],
        desc |-> [d1 EXCEPT ![a1.head] = [next |-> 0, occupied |-> TRUE]],
        heap |-> h1]

\* LockFreePage::Return(p) running without interference from other threads.
ReturnOnce(a, d, h, p) ==
  IF p = Null \/ ~h THEN [err |-> "InvalidInput", anchor |-> a, desc |-> d]
  ELSE LET index == (p - PgSuperBase) \div GetPageSize IN
       [err |-> "Ok",
        anchor |-> [a EXCEPT !.head = Bits18(index), !.available = Bits18(a.available + 1)],
        desc |-> [d EXCEPT ![index] = [next |-> a.head, occupied |-> FALSE]]]

BpIdle == [pc |-> "idle", op |-> "None", size |-> 0, alignment |-> 0, request_size |-> 0,
           old |-> BlockDescriptor(0, 0, 0, 0), new |-> BlockDescriptor(0, 0, 0, 0),
           new_block |-> Null, res |-> "None", ptr |-> Null]

BpInit ==
  /\ kGrowWhenFull \in BOOLEAN
  /\ active_ = BlockDescriptor(0, 0, 0, 0)
  /\ block_table_ = <<>>
  /\ bp = [t \in BpRacerIds |-> BpIdle]
  /\ bp_calls = 0
  /\ bp_regions = {}
  /\ bp_clash = FALSE

\* block_table_[i]; the array starts zeroed.
TableAt(i) == IF i \in DOMAIN block_table_ THEN block_table_[i] ELSE Null

\* The call returns res (and ptr); the call's layout stays on record.
BpDone(t, res, ptr) ==
  [BpIdle EXCEPT !.op = bp[t].op, !.size = bp[t].size, !.alignment = bp[t].alignment,
                 !.request_size = bp[t].request_size, !.res = res, !.ptr = ptr]

\* Back to the head of Find's loop: old/new/new_block are dead there.
BpLoop(t) ==
  [BpIdle EXCEPT !.pc = "F_load", !.op = bp[t].op, !.size = bp[t].size,
                 !.alignment = bp[t].alignment, !.request_size = bp[t].request_size]

\* Find(layout): the checks before the loop.
BpFindCall(t, layout) ==
  /\ UNCHANGED <<auxvars, flvars, pg, pg_held, pg_holds, pg_calls, pg_released>>
  /\ bp[t].pc = "idle"
  /\ bp_calls < MaxBumpFinds
  /\ bp_calls' = bp_calls + 1
  /\ LET request_size == AlignUp(layout.size, layout.alignment)
         call == [BpIdle EXCEPT !.op = "Find", !.size = layout.size,
                                !.alignment = layout.alignment,
                                !.request_size = request_size]
     IN bp' = [bp EXCEPT ![t] =
          IF ~IsValid(layout) THEN [call EXCEPT !.res = "InvalidInput", !.request_size = 0]
          ELSE IF SizeGreater(request_size, GetPageSize)
               THEN [call EXCEPT !.res = "SizeRequestTooLarge"]
          ELSE [call EXCEPT !.pc = "F_load"]]
  /\ UNCHANGED <<kGrowWhenFull, active_, block_table_, bp_regions, bp_clash, anchor_,
                 descriptors, heap_>>

\* old_active = active_.load() and the two branches that need a new block.
BpFindLoad(t) ==
  /\ UNCHANGED <<auxvars, flvars, pg, pg_held, pg_holds, pg_calls, pg_released>>
  /\ bp[t].pc = "F_load"
  /\ LET old == active_
         headroom == GetPageSize - old.size
     IN bp' = [bp EXCEPT ![t] =
          IF old.initialized = 0 THEN [@ EXCEPT !.pc = "A_load"]
          ELSE IF headroom < bp[t].request_size
               THEN IF ~kGrowWhenFull THEN BpDone(t, "ReachedMemoryLimit", Null)
                    ELSE [@ EXCEPT !.pc = "A_load"]
          ELSE [@ EXCEPT !.pc = "F_cas", !.old = old,
                         !.new = [old EXCEPT !.offset =
                                    (old.offset + bp[t].request_size) % OffsetModulus]]]
  /\ UNCHANGED <<kGrowWhenFull, active_, block_table_, bp_calls, bp_regions, bp_clash,
                 anchor_, descriptors, heap_>>

\* active_.compare_exchange_weak(old_active, new_active).
BpFindCas(t) ==
  /\ UNCHANGED <<auxvars, flvars, pg, pg_held, pg_holds, pg_calls, pg_released>>
  /\ bp[t].pc = "F_cas"
  /\ \/ /\ active_ = bp[t].old
        /\ active_' = bp[t].new
        /\ bp' = [bp EXCEPT ![t].pc = "F_ret"]
     \/ /\ UNCHANGED active_
        /\ bp' = [bp EXCEPT ![t] = BpLoop(t)]
  /\ UNCHANGED <<kGrowWhenFull, block_table_, bp_calls, bp_regions, bp_clash, anchor_,
                 descriptors, heap_>>

Overlaps(r1, r2) == r1.ptr < r2.ptr + r2.take /\ r2.ptr < r1.ptr + r1.take

\* return block_table_[old_active.index] + old_active.offset.
BpFindRet(t) ==
  /\ UNCHANGED <<auxvars, flvars, pg, pg_held, pg_holds, pg_calls, pg_released>>
  /\ bp[t].pc = "F_ret"
  /\ LET ptr == TableAt(bp[t].old.index) + bp[t].old.offset
         region == [ptr |-> ptr, take |-> bp[t].request_size]
     IN /\ bp' = [bp EXCEPT ![t] = BpDone(t, "Ok", ptr)]
        /\ bp_regions' = bp_regions \cup {region}
        /\ bp_clash' = (bp_clash \/ \E r \in bp_regions : Overlaps(r, region))
  /\ UNCHANGED <<kGrowWhenFull, active_, block_table_, bp_calls, anchor_, descriptors, heap_>>

\* AllocateNewBlock: the load and the descriptor to publish.
BpAllocLoad(t) ==
  /\ UNCHANGED <<auxvars, flvars, pg, pg_held, pg_holds, pg_calls, pg_released>>
  /\ bp[t].pc = "A_load"
  /\ LET old == active_
         new == [old EXCEPT !.offset = 0,
                            !.index = IF old.initialized = 1 THEN (old.index + 1) % IndexModulus
                                      ELSE old.index,
                            !.initialized = 1]
     IN bp' = [bp EXCEPT ![t].pc = "A_provide", ![t].old = old, ![t].new = new]
  /\ UNCHANGED <<kGrowWhenFull, active_, block_table_, bp_calls, bp_regions, bp_clash,
                 anchor_, descriptors, heap_>>

\* AllocateNewBlock: provider_.Provide(1); any error becomes OutOfMemory.
BpAllocProvide(t, ok) ==
  /\ UNCHANGED <<auxvars, flvars, pg, pg_held, pg_holds, pg_calls, pg_released>>
  /\ bp[t].pc = "A_provide"
  /\ LET r == ProvideOnce(anchor_, descriptors, heap_, ok) IN
     /\ r.err # "Spin"
     /\ anchor_' = r.anchor
     /\ descriptors' = r.desc
     /\ heap_' = r.heap
     /\ bp' = [bp EXCEPT ![t] = IF r.err # "Ok" THEN BpDone(t, "OutOfMemory", Null)
                                ELSE [@ EXCEPT !.pc = "A_cas", !.new_block = r.ptr]]
  /\ UNCHANGED <<kGrowWhenFull, active_, block_table_, bp_calls, bp_regions, bp_clash>>

\* AllocateNewBlock: the CAS that publishes the new descriptor.
BpAllocCas(t) ==
  /\ UNCHANGED <<auxvars, flvars, pg, pg_held, pg_holds, pg_calls, pg_released>>
  /\ bp[t].pc = "A_cas"
  /\ \/ /\ active_ = bp[t].old
        /\ active_' = bp[t].new
        /\ bp' = [bp EXCEPT ![t].pc = "A_publish"]
     \/ /\ UNCHANGED active_
        /\ bp' = [bp EXCEPT ![t].pc = "A_release"]
  /\ UNCHANGED <<kGrowWhenFull, block_table_, bp_calls, bp_regions, bp_clash, anchor_,
                 descriptors, heap_>>

\* The CAS winner stores the block in block_table_[new_active.index].
BpAllocPublish(t) ==
  /\ UNCHANGED <<auxvars, flvars, pg, pg_held, pg_holds, pg_calls, pg_released>>
  /\ bp[t].pc = "A_publish"
  /\ block_table_' = [i \in (DOMAIN block_table_) \cup {bp[t].new.index} |->
                        IF i = bp[t].new.index THEN bp[t].new_block ELSE block_table_[i]]
  /\ bp' = [bp EXCEPT ![t] = BpLoop(t)]
  /\ UNCHANGED <<kGrowWhenFull, active_, bp_calls, bp_regions, bp_clash, anchor_,
                 descriptors, heap_>>

\* The CAS loser gives its block back to the provider.
BpAllocRelease(t) ==
  /\ UNCHANGED <<auxvars, flvars, pg, pg_held, pg_holds, pg_calls, pg_released>>
  /\ bp[t].pc = "A_release"
  /\ LET r == ReturnOnce(anchor_, descriptors, heap_, bp[t].new_block) IN
     /\ anchor_' = r.anchor
     /\ descriptors' = r.desc
     /\ bp' = [bp EXCEPT ![t] = IF r.err # "Ok" THEN BpDone(t, r.err, Null) ELSE BpLoop(t)]
  /\ UNCHANGED <<kGrowWhenFull, active_, block_table_, bp_calls, bp_regions, bp_clash, heap_>>

BpStep(t) ==
  \/ \E layout \in BpLayouts : BpFindCall(t, layout)
  \/ BpFindLoad(t)
  \/ BpFindCas(t)
  \/ BpFindRet(t)
  \/ BpAllocLoad(t)
  \/ \E ok \in BOOLEAN : BpAllocProvide(t, ok)
  \/ BpAllocCas(t)
  \/ BpAllocPublish(t)
  \/ BpAllocRelease(t)

\* The bump strategy over a page provider nobody else uses.
BumpInit == FLInit /\ kSearchStrategy = "BestFit" /\ PgInit /\ BpInit /\ AuxInit

BumpNext == \E t \in BpThreadIds : BpStep(t)

\* Return(ptr) with a null pointer answered apart.
BumpReturnChecksNull(ptr) == IF ptr = Null THEN "InvalidInput" ELSE "OperationNotSupported"

\* LockFreeBump::Return(ptr): no per-object deallocation.
BumpReturn(ptr) == "OperationNotSupported"

\* Pointers given to Return: null, every address handed out, a foreign one.
BpReturnPtrs == {Null, PgSuperBase - kMinimumAlignment} \cup {r.ptr : r \in bp_regions}

BpReturnCall(t, ptr) ==
  /\ UNCHANGED <<auxvars, flvars, pg, pg_held, pg_holds, pg_calls, pg_released>>
  /\ bp[t].pc = "idle"
  /\ bp_calls < MaxBumpFinds
  /\ bp_calls' = bp_calls + 1
  /\ bp' = [bp EXCEPT ![t] = [BpIdle EXCEPT !.op = "Return", !.ptr = ptr,
                                           !.res = BumpReturn(ptr)]]
  /\ UNCHANGED <<kGrowWhenFull, active_, block_table_, bp_regions, bp_clash, anchor_,
                 descriptors, heap_>>

BpReturnStep(t) == \E ptr \in BpReturnPtrs : BpReturnCall(t, ptr)

BpAnyReturn == \E t \in BpThreadIds : BpReturnStep(t)

\* block_table_[i] left as it is.
KeepSlot(table, i) == table

\* block_table_[i] = nullptr.
NullSlot(table, i) == [table EXCEPT ![i] = Null]

\* Reset's loop over block_table_[i..last]: provider_.Return, then the slot is
\* nulled; the first error ends the call.
RECURSIVE ResetLoop(_, _, _, _, _, _)
RECURSIVE ResetSlot(_, _, _, _, _)
ResetLoop(table, a, d, h, i, last) ==
  IF i > last THEN [err |-> "Ok", table |-> table, anchor |-> a, desc |-> d]
  ELSE ResetSlot(table, ReturnOnce(a, d, h, IF i \in DOMAIN table THEN table[i] ELSE Null),
                 h, i, last)

ResetSlot(table, r, h, i, last) ==
  IF r.err # "Ok" THEN [err |-> r.err, table |-> table, anchor |-> r.anchor, desc |-> r.desc]
  ELSE ResetLoop(NullSlot(table, i), r.anchor, r.desc, h, i + 1, last)

\* LockFreeBump::Reset.
Reset(table, active, a, d, h) ==
  IF active.initialized = 0
  THEN [err |-> "Ok", table |-> table, anchor |-> a, desc |-> d]
  ELSE ResetLoop(table, a, d, h, 0, active.index)

\* Reset() while no Find is running; the regions handed out end with it.
BpReset(t) ==
  \E r \in {Reset(block_table_, active_, anchor_, descriptors, heap_)} :
  /\ UNCHANGED <<auxvars, flvars, pg, pg_held, pg_holds, pg_calls, pg_released>>
  /\ \A u \in BpRacerIds : bp[u].pc = "idle"
  /\ bp_calls < MaxBumpFinds
  /\ bp_calls' = bp_calls + 1
  /\ bp' = [bp EXCEPT ![t] = [BpIdle EXCEPT !.op = "Reset", !.old = active_, !.res = r.err]]
  /\ active_' = IF r.err = "Ok" THEN BlockDescriptor(0, 0, 0, 0) ELSE active_
  /\ block_table_' = r.table
  /\ anchor_' = r.anchor
  /\ descriptors' = r.desc
  /\ bp_regions' = IF r.err = "Ok" THEN {} ELSE bp_regions
  /\ UNCHANGED <<kGrowWhenFull, bp_clash, heap_>>

\* Layouts of the Finds that run before and after a Reset.
BpResetLayouts == {Layout(SizeOfT, kMinimumAlignment)}

BpResetStep(t) ==
  \/ \E layout \in BpResetLayouts : BpFindCall(t, layout)
  \/ BpFindLoad(t)
  \/ BpFindCas(t)
  \/ BpFindRet(t)
  \/ BpAllocLoad(t)
  \/ BpAllocProvide(t, TRUE)
  \/ BpAllocCas(t)
  \/ BpAllocPublish(t)
  \/ BpAllocRelease(t)
  \/ BpReset(t)

\* Two threads are enough to race for the first block and leave two blocks in
\* the table; Reset itself runs with no Find in progress.
BpResetThreads == {t \in BpThreadIds : t <= 2}

BumpResetNext == \E t \in BpResetThreads : BpResetStep(t)

SpecBumpReset == BumpInit /\ [][BumpResetNext]_vars

\* More threads inside their first Find than the index has values: each of them
\* saw the descriptor uninitialized and goes on to AllocateNewBlock.
BpRaceStep(t) ==
  \/ \E layout \in BpResetLayouts : BpFindCall(t, layout)
  \/ BpFindLoad(t)
  \/ BpFindCas(t)
  \/ BpFindRet(t)
  \/ BpAllocLoad(t)
  \/ \E ok \in BOOLEAN : BpAllocProvide(t, ok)
  \/ BpAllocCas(t)
  \/ BpAllocPublish(t)
  \/ BpAllocRelease(t)

BumpRaceNext == \E t \in BpRacerIds : BpRaceStep(t)

SpecBumpRace == BumpInit /\ [][BumpRaceNext]_vars

\* Sizes above the block size, up to the top of std::size_t: 2^64 - 24,
\* 2^64 - 16, 2^64 - 8 and 2^64 - 7.
LargeLayouts ==
  {Layout(GetPageSize + kMinimumAlignment, kMinimumAlignment),
   Layout(0 - 24, kMinimumAlignment), Layout(0 - 16, kMinimumAlignment),
   Layout(0 - 8, kMinimumAlignment), Layout(0 - 7, kMinimumAlignment)}

\* A program has one of the two strategies; its client also asks for large
\* sizes.
FLFindLarge ==
  \E layout \in LargeLayouts \cup {Layout(SizeOfT, kMinimumAlignment)} :
    /\ bp_calls = 0
    /\ FLFind(layout.size, layout.alignment, TRUE, TRUE)

BpFindLarge ==
  \E layout \in LargeLayouts \cup {Layout(SizeOfT, kMinimumAlignment)} :
    /\ fl_last.op = "None"
    /\ BpFindCall(1, layout)

NextLarge ==
  \/ FLFindLarge
  \/ BpFindLarge
  \/ BpFindLoad(1)
  \/ BpFindCas(1)
  \/ BpFindRet(1)
  \/ BpAllocLoad(1)
  \/ BpAllocProvide(1, TRUE)
  \/ BpAllocCas(1)
  \/ BpAllocPublish(1)
  \/ BpAllocRelease(1)

SpecLarge == BumpInit /\ [][NextLarge]_vars

\* Layouts that are not valid: a zero size, a zero alignment, alignments that
\* are no power of two, alignments below the word size.
InvalidLayouts ==
  {Layout(0, kMinimumAlignment), Layout(0, 0), Layout(SizeOfT, 0), Layout(SizeOfT, 3),
   Layout(SizeOfT, 24), Layout(SizeOfT, 1), Layout(SizeOfT, 4)}

FLFindInvalid ==
  \E layout \in InvalidLayouts \cup {Layout(SizeOfT, kMinimumAlignment)} :
  \E ok \in MmapOutcomes :
    /\ bp_calls = 0
    /\ FLFind(layout.size, layout.alignment, ok[1], ok[2])

BpFindInvalid ==
  \E layout \in InvalidLayouts \cup {Layout(SizeOfT, kMinimumAlignment)} :
    /\ fl_last.op = "None"
    /\ BpFindCall(1, layout)

\* A program has one of the two strategies; its client also passes layouts
\* that are not valid.
NextInvalid ==
  \/ FLFindInvalid
  \/ BpFindInvalid
  \/ BpFindLoad(1)
  \/ BpFindCas(1)
  \/ BpFindRet(1)
  \/ BpAllocLoad(1)
  \/ \E ok \in BOOLEAN : BpAllocProvide(1, ok)
  \/ BpAllocCas(1)
  \/ BpAllocPublish(1)
  \/ BpAllocRelease(1)

SpecInvalid == BumpInit /\ [][NextInvalid]_vars

\* One thread calls Find; every thread may call Return, at any point of a Find.
BumpSeqNext == BpStep(1) \/ BpAnyReturn

SpecBumpSeq == BumpInit /\ [][BumpSeqNext]_vars

SpecBump == BumpInit /\ [][BumpNext]_vars

\* C3: no Find hands out bytes of a region an earlier Find handed out.
C3_DisjointRegions ==
  /\ ~bp_clash
  /\ \A r1, r2 \in bp_regions : r1 # r2 => ~Overlaps(r1, r2)

\* The page provider alone; the free list stays as constructed (default search).
PageInit == FLInit /\ kSearchStrategy = "BestFit" /\ PgInit /\ BpInit /\ kGrowWhenFull /\ AuxInit

SpecPage == PageInit /\ [][PageNext]_vars

\* The page provider used by one caller at a time.
SpecPageSeq == PageInit /\ [][PgStep(1)]_vars

\* Provide(count) for every count up to one above kLimit.
PgProvideAnyCount(t) == \E count \in 0..(kLimit + 1) : PgProvideCall(t, count)

\* Addresses no caller holds: the pages of the super block that are not
\* handed out, and the address one past the super block.
PgForeignPtrs ==
  {p \in PgPages \cup {PgSuperBase + kLimit * GetPageSize} :
     \A u \in PgThreadIds : p \notin pg_held[u]}

\* Return(p) of an address the caller does not hold.  An index past the
\* descriptor array makes the stores to descriptors[index] undefined: they
\* fault, or they land outside the array and the call goes on.
PgReturnForeign(t, p, fault) ==
  /\ UNCHANGED <<auxvars, flvars, bpvars, pg_released>>
  /\ pg_calls < MaxPgCalls
  /\ pg_calls' = pg_calls + 1
  /\ pg[t].pc = "idle"
  /\ p \in PgForeignPtrs
  /\ IF p = Null \/ ~heap_
     THEN /\ pg' = [pg EXCEPT ![t] = [PgIdle EXCEPT !.op = "Return", !.arg = p,
                                                    !.res = "InvalidInput"]]
          /\ UNCHANGED descriptors
     ELSE LET index == (p - PgSuperBase) \div GetPageSize IN
          IF index \notin DOMAIN descriptors /\ fault
          THEN /\ pg' = [pg EXCEPT ![t] = [PgIdle EXCEPT !.op = "Return", !.arg = p,
                                                         !.pc = "crashed", !.res = "Crash"]]
               /\ UNCHANGED descriptors
          ELSE /\ descriptors' = IF index \in DOMAIN descriptors
                                  THEN [descriptors EXCEPT ![index].occupied = FALSE]
                                  ELSE descriptors
               /\ pg' = [pg EXCEPT ![t] = [PgIdle EXCEPT !.op = "Return", !.arg = p,
                                                         !.pc = "R_load", !.index = index]]
  /\ UNCHANGED <<anchor_, heap_, pg_held, pg_holds>>

PgReturnAnyForeign(t) ==
  \E p \in PgForeignPtrs : \E fault \in BOOLEAN : PgReturnForeign(t, p, fault)

\* One caller that also passes counts and addresses that are not valid.
PageArgsNext == PgStep(1) \/ PgProvideAnyCount(1) \/ PgReturnAnyForeign(1)

SpecPageArgs == PageInit /\ [][PageArgsNext]_vars

\* A step of thread t inside a call it has started.
PgRun(t) == pg[t].pc # "idle" /\ PgStep(t)

\* Concurrent callers under a fair scheduler: a thread inside a call is
\* scheduled again and again (std::this_thread::yield only gives up the turn).
SpecPageFair == PageInit /\ [][PageNext]_vars /\ \A t \in PgThreadIds : WF_vars(PgRun(t))

\* C2: no page is held by two callers at once.
C2_NoDoubleHold == \A p \in PgPages : pg_holds[p] <= 1

Init == FLInit /\ PgInit /\ BpInit /\ kGrowWhenFull /\ AuxInit

Next == FLFindStep \/ FLReturnStep

Spec == Init /\ [][Next]_vars

\* Longest free list searched.
MaxBlocks == 3

\* Sizes of the free blocks, SizeWithHeader(3), (4), (5) of the tests.
FitSizes == {GetBlockHeaderSize + 3, GetBlockHeaderSize + 4, GetBlockHeaderSize + 5}

\* Sizes asked for: below, between, equal to and above the block sizes.
FitRequests == {1, GetBlockHeaderSize + 3, GetBlockHeaderSize + 4, GetBlockHeaderSize + 5,
                GetBlockHeaderSize + 6}

\* TestFreeList::FromBlockSizes: one header per size, each linked to the next.
FitAddr(i) == MmapBase + (i - 1) * 64

FromBlockSizes(sizes) ==
  [a \in {FitAddr(i) : i \in 1..Len(sizes)} |->
     LET i == ((a - MmapBase) \div 64) + 1 IN
     [size |-> sizes[i], next |-> IF i = Len(sizes) THEN Null ELSE FitAddr(i + 1)]]

FitInit ==
  /\ kSearchStrategy \in FindBy
  /\ \E n \in 1..MaxBlocks : \E sizes \in [1..n -> FitSizes] : hdr = FromBlockSizes(sizes)
  /\ block_ = FitAddr(1)
  /\ free_list_ = FitAddr(1)
  /\ outstanding = {}
  /\ fl_finds = 0
  /\ fl_last = NoCall
  /\ fl_order = <<>>
  /\ pv_head = Null
  /\ pv_entries = <<>>
  /\ pv_unmapped = {}
  /\ mmap_next = MmapBase
  /\ PgInit /\ BpInit /\ kGrowWhenFull /\ AuxInit

\* One call of the configured search on the list; the answer is kept.
FitSearch(minimum_size) ==
  \E r \in {GetFindBlockFn(hdr, free_list_, minimum_size)} :
  /\ fl_last' = [op |-> "FindBlock", size |-> minimum_size, alignment |-> 0,
                 ptr |-> r.header, err |-> r.kind, prev |-> r.prev]
  /\ UNCHANGED <<kSearchStrategy, block_, free_list_, hdr, outstanding, fl_finds, fl_order,
                 pv_head, pv_entries, pv_unmapped, mmap_next, pgvars, bpvars, auxvars>>

FitNext == \E minimum_size \in FitRequests : FitSearch(minimum_size)

SpecFit == FitInit /\ [][FitNext]_vars

\* Calls of SplitBlock and CoalesceBlock made in a row on one list.
MaxBlkCalls == 2

\* Block sizes of the SplitBlock and CoalesceBlock tests: SizeWithHeader(8) and
\* SizeWithHeader(2 * 8 + GetBlockHeaderSize).
BlkSizes == {GetBlockHeaderSize + 8, 2 * GetBlockHeaderSize + 2 * 8}

\* Bytes between the end of a block and the header linked after it: the one
\* buffer of FromBlockSizes (adjacent) or two buffers linked by hand.
BlkGaps == {0, 16}

\* bytes_needed and alignment given to SplitBlock: the values of the tests and
\* their neighbours.
BlkBytes == {0, GetBlockHeaderSize + 1, GetBlockHeaderSize + 8}

BlkAlignments == {0, kMinimumAlignment, 2 * kMinimumAlignment}

RECURSIVE BlkAddr(_, _, _, _)
BlkAddr(n, size, gaps, i) ==
  IF i = 1 THEN MmapBase ELSE BlkAddr(n, size, gaps, i - 1) + size + gaps[i - 1]

\* The headers of a list of n blocks of one size, each linked to the next.
BlkList(n, size, gaps) ==
  [a \in {BlkAddr(n, size, gaps, i) : i \in 1..n} |->
     LET i == CHOOSE k \in 1..n : BlkAddr(n, size, gaps, k) = a IN
     [size |-> size, next |-> IF i = n THEN Null ELSE BlkAddr(n, size, gaps, i + 1)]]

\* No call made yet on the list.
NoBlkCall ==
  [op |-> "None", block |-> Null, bytes_needed |-> 0, alignment |-> 0, kind |-> "",
   failure |-> "", new_header |-> Null, before |-> ZeroHeader, after |-> ZeroHeader]

BlkInit ==
  /\ kSearchStrategy = "FirstFit"
  /\ \E n \in 1..MaxBlocks : \E size \in BlkSizes : \E gaps \in [1..(n - 1) -> BlkGaps] :
       hdr = BlkList(n, size, gaps)
  /\ block_ = MmapBase
  /\ free_list_ = MmapBase
  /\ outstanding = {}
  /\ fl_finds = 0
  /\ fl_last = NoBlkCall
  /\ fl_order = <<>>
  /\ pv_head = Null
  /\ pv_entries = <<>>
  /\ pv_unmapped = {}
  /\ mmap_next = MmapBase
  /\ PgInit /\ BpInit /\ kGrowWhenFull /\ AuxInit

\* One more call on the list: fl_last is the call, fl_order the call before it.
BlkCalled(call, mem) ==
  /\ fl_finds < MaxBlkCalls
  /\ fl_finds' = fl_finds + 1
  /\ hdr' = mem
  /\ fl_last' = call
  /\ fl_order' = <<fl_last>>
  /\ UNCHANGED <<kSearchStrategy, block_, free_list_, outstanding, pv_head, pv_entries,
                 pv_unmapped, mmap_next, pgvars, bpvars, auxvars>>

\* SplitBlock(block, bytes_needed, alignment) on the list.
BlkSplit(block, bytes_needed, alignment) ==
  \E r \in {SplitBlock(hdr, block, bytes_needed, alignment)} :
    BlkCalled([op |-> "SplitBlock", block |-> block, bytes_needed |-> bytes_needed,
               alignment |-> alignment, kind |-> r.kind, failure |-> r.failure,
               new_header |-> r.new_header, before |-> HeaderAt(hdr, block),
               after |-> HeaderAt(r.mem, block)], r.mem)

\* CoalesceBlock(block) on the list.
BlkCoalesce(block) ==
  \E r \in {CoalesceBlock(hdr, block)} :
    BlkCalled([op |-> "CoalesceBlock", block |-> block, bytes_needed |-> 0, alignment |-> 0,
               kind |-> r.kind, failure |-> IF r.kind = "fail" THEN r.failure ELSE "",
               new_header |-> Null, before |-> HeaderAt(hdr, block),
               after |-> HeaderAt(r.mem, block)], r.mem)

\* The calls of the tests: on the list's first header with every choice of
\* bytes_needed and alignment, and on the null pointer.
BlkNext ==
  \/ \E bytes_needed \in BlkBytes : \E alignment \in BlkAlignments :
       BlkSplit(free_list_, bytes_needed, alignment)
  \/ BlkSplit(Null, 5, kMinimumAlignment)
  \/ \E block \in {free_list_, Null} : BlkCoalesce(block)

SpecBlock == BlkInit /\ [][BlkNext]_vars

\* A block map under Insert and Take in any order.
MapNext == BmInsertStep \/ BmTakeStep

SpecMap == PageInit /\ [][MapNext]_vars

\* The static provider with its borrowers.
StaticNext == StProvideStep \/ StReturnStep

SpecStatic == PageInit /\ [][StaticNext]_vars

\* A client of the single-threaded page provider asks for count pages.
PvProvide(count, ok1, ok2) ==
  \E r \in {Provide(FLState, count, ok1, ok2)} :
  /\ FLRunning
  /\ fl_finds < MaxFinds
  /\ fl_finds' = fl_finds + 1
  /\ FLApply(r.s)
  /\ outstanding' = IF r.err = "Ok" THEN outstanding \cup {r.ptr} ELSE outstanding
  /\ fl_last' = [op |-> "Provide", size |-> count, alignment |-> 0, ptr |-> r.ptr,
                 err |-> r.err, known |-> FALSE]
  /\ UNCHANGED <<kSearchStrategy, fl_order, pgvars, bpvars, auxvars>>

\* Addresses given to Return: null, every range handed out (given back
\* since or not), an address inside a range and one never mapped.
PvReturnPtrs == {Null, MmapBase - GetPageSize} \cup outstanding \cup {p + 8 : p \in outstanding}

\* The address is recorded as an outstanding range of the provider.
Recorded(bytes) == \E i \in DOMAIN pv_entries : pv_entries[i] = bytes

PvReturn(bytes) ==
  \E r \in {ProviderReturn(FLState, bytes)} :
  /\ FLRunning
  /\ FLApply(r.s)
  /\ fl_last' = [op |-> "ProviderReturn", size |-> 0, alignment |-> 0, ptr |-> bytes,
                 err |-> r.err, known |-> Recorded(bytes)]
  /\ UNCHANGED <<kSearchStrategy, outstanding, fl_finds, fl_order, pgvars, bpvars, auxvars>>

PvProvideStep == \E count \in 0..2, ok \in MmapOutcomes : PvProvide(count, ok[1], ok[2])

PvReturnStep == \E bytes \in PvReturnPtrs : PvReturn(bytes)

ProviderNext == PvProvideStep \/ PvReturnStep

SpecProvider == PageInit /\ [][ProviderNext]_vars

\* Provide(1) calls it takes to fill the first block array and chain a second
\* one in front of it.
FillCalls == kCapacity + 1

\* A client keeps asking for one page, every mmap succeeding.
PvFill ==
  \E r \in {Provide(FLState, 1, TRUE, TRUE)} :
  /\ FLRunning
  /\ fl_finds < FillCalls
  /\ fl_finds' = fl_finds + 1
  /\ FLApply(r.s)
  /\ outstanding' = IF r.err = "Ok" THEN outstanding \cup {r.ptr} ELSE outstanding
  /\ fl_last' = [op |-> "Provide", size |-> 1, alignment |-> 0, ptr |-> r.ptr,
                 err |-> r.err, known |-> FALSE]
  /\ UNCHANGED <<kSearchStrategy, fl_order, pgvars, bpvars, auxvars>>

\* The ranges the client still holds: handed out and not given back.
PvHeld == outstanding \ pv_unmapped

\* The client gives back the range it got first.
PvReturnHeld(bytes) ==
  \E r \in {ProviderReturn(FLState, bytes)} :
  /\ FLRunning
  /\ bytes \in PvHeld
  /\ \A p \in outstanding : bytes <= p
  /\ FLApply(r.s)
  /\ fl_last' = [op |-> "ProviderReturn", size |-> 0, alignment |-> 0, ptr |-> bytes,
                 err |-> r.err, known |-> TRUE]
  /\ UNCHANGED <<kSearchStrategy, outstanding, fl_finds, fl_order, pgvars, bpvars, auxvars>>

PvReturnHeldStep == \E bytes \in PvHeld : PvReturnHeld(bytes)

FillNext == PvFill \/ PvReturnHeldStep

SpecFill == PageInit /\ [][FillNext]_vars

\* The strategy and its provider go out of scope: FreeList declares no
\* destructor and ~UnsynchronizedPage() is defaulted, so nothing is unmapped.
FLDestroy ==
  /\ FLRunning
  /\ fl_last.op # "Destroy"
  /\ fl_last' = [op |-> "Destroy", size |-> 0, alignment |-> 0, ptr |-> Null, err |-> "Ok"]
  /\ UNCHANGED <<kSearchStrategy, block_, free_list_, hdr, outstanding, fl_finds, fl_order,
                 pv_head, pv_entries, pv_unmapped, mmap_next, pgvars, bpvars, auxvars>>

\* A strategy over its provider from construction to destruction.
NextLife ==
  \/ fl_last.op # "Destroy" /\ FLFindStep
  \/ fl_last.op # "Destroy" /\ FLReturnStep
  \/ FLDestroy

SpecLife == Init /\ [][NextLife]_vars

\* The free-list strategy with clients that may repeat a Return.
NextDouble == FLFindStep \/ FLReturnStep \/ FLReturnAgain

SpecDouble == Init /\ [][NextDouble]_vars

\* The free-list strategy with clients that may Return foreign pointers.
NextForeign == FLFindStep \/ FLReturnStep \/ FLReturnForeign

SpecForeign == Init /\ [][NextForeign]_vars


\* ---------------------------------------------------- FreeList: properties
\* The headers reachable from head, in list order (cut after MaxWalk + 1).
RECURSIVE ListFrom(_, _, _)
ListFrom(mem, head, fuel) ==
  IF head = Null \/ fuel = 0 THEN <<>>
  ELSE <<head>> \o ListFrom(mem, HeaderAt(mem, head).next, fuel - 1)

FreeHeaders == ListFrom(hdr, free_list_, MaxWalk + 1)

FreeSet == {FreeHeaders[i] : i \in 1..Len(FreeHeaders)}

RECURSIVE SumSizes(_)
SumSizes(S) ==
  IF S = {} THEN 0
  ELSE LET h == CHOOSE x \in S : TRUE IN HeaderAt(hdr, h).size + SumSizes(S \ {h})

\* Headers of the allocations the clients hold.
OutstandingHeaders == {GetHeader(p) : p \in outstanding}

Disjoint(a, b) ==
  a + HeaderAt(hdr, a).size <= b \/ b + HeaderAt(hdr, b).size <= a

\* C1: every pointer a successful Find returns, from the free-list strategy
\* or from the bump strategy, is a multiple of the alignment of the layout
\* that was requested.
C1_FindIsAligned ==
  /\ (fl_last.op = "Find" /\ fl_last.err = "Ok") => fl_last.ptr % fl_last.alignment = 0
  /\ \A t \in BpThreadIds : bp[t].res = "Ok" => bp[t].ptr % bp[t].alignment = 0

\* C4: the regions (header + payload) of the outstanding allocations are
\* pairwise disjoint and disjoint from every region of the free list.
C4_NoOverlap ==
  /\ Len(FreeHeaders) = Cardinality(FreeSet)
  /\ OutstandingHeaders \cap FreeSet = {}
  /\ \A a, b \in OutstandingHeaders \cup FreeSet : a # b => Disjoint(a, b)

\* C4 witness: two allocations are held while a returned one is on the list.
C4_Witness ==
  /\ fl_last.op = "Return" /\ fl_last.err = "Ok" /\ fl_last.ptr # Null
  /\ Cardinality(outstanding) >= 2
  /\ Len(FreeHeaders) >= 1

\* C6: free sizes plus outstanding sizes (plus the block's own header, which
\* the free list never covers) add up to the block's aligned size.
C6_Accounting ==
  (block_ # Null /\ FLRunning) =>
    SumSizes(FreeSet) + SumSizes(OutstandingHeaders) + GetBlockHeaderSize = GetAlignedSize

\* C7: no free region ends where another free region starts.
C7_NoAdjacentFree ==
  \A a, b \in FreeSet : a + HeaderAt(hdr, a).size # b

\* C8: the free list is strictly ascending by address, hence acyclic.
C8_SortedAcyclic ==
  /\ \A i \in 1..Len(FreeHeaders) :
       LET n == HeaderAt(hdr, FreeHeaders[i]).next IN n = Null \/ n > FreeHeaders[i]
  /\ Len(FreeHeaders) <= MaxFinds + 1

\* C8 witness: a Return spliced a region between two free regions.
C8_Witness ==
  /\ fl_last.op = "Return" /\ fl_last.err = "Ok"
  /\ Len(FreeHeaders) >= 3
  /\ GetHeader(fl_last.ptr) = FreeHeaders[2]

\* C9: a Return that leaves no allocation outstanding gives the block back
\* to the provider once and nulls block_ and free_list_.
C9_ReleasedWhenEmpty ==
  (fl_last.op = "Return" /\ fl_last.err = "Ok" /\ fl_last.ptr # Null /\ outstanding = {}) =>
    (block_ = Null /\ free_list_ = Null /\ Cardinality(pv_unmapped) = 1)

\* No region of the free list has at least n bytes (the empty list included).
NoFit(n) == \A h \in FreeSet : HeaderAt(hdr, h).size < n

\* C10: a valid Find on an initialised block whose free list has no region of
\* the request size fails with NoFreeBlock and leaves the free list as it was.
C10_NoFreeBlock ==
  [][ LET size == fl_last'.size
          alignment == fl_last'.alignment
      IN (/\ fl_last'.op = "Find"
          /\ block_ # Null
          /\ IsValidRequest(size, alignment)
          /\ AlignUp(size + GetBlockHeaderSize, alignment) <= GetAlignedSize
          /\ NoFit(AlignUp(size + GetBlockHeaderSize, alignment)))
         => (fl_last'.err = "NoFreeBlock" /\ free_list_' = free_list_ /\ hdr' = hdr) ]_vars

\* C5: the first Return of a pointer succeeds; repeating it does not succeed
\* and leaves the free list acyclic.
C5_ReturnOnce ==
  /\ (fl_last.op = "Return" /\ fl_last.ptr # Null) => fl_last.err = "Ok"
  /\ fl_last.op = "ReturnAgain" =>
       (fl_last.err \notin {"Ok", "Hang", "Crash"} /\ Len(FreeHeaders) = Cardinality(FreeSet))

NextCoalescion == ScFill \/ ScRelease \/ ScRefill
SpecCoalescion == Init /\ [][NextCoalescion]_vars

\* C11: Return of the null pointer, or of a pointer outside
\* [block_base, block_base + block_size), fails with InvalidInput and leaves
\* the block, the free list and the headers as they were.
C11_ReturnRejectsOutOfRange ==
  [][ (/\ fl_last'.op \in {"Return", "ReturnForeign"}
       /\ \/ fl_last'.ptr = Null
          \/ /\ block_ # Null
             /\ \/ fl_last'.ptr < block_
                \/ fl_last'.ptr >= block_ + GetAlignedSize)
      => (/\ fl_last'.err = "InvalidInput"
          /\ UNCHANGED <<block_, free_list_, hdr, pv_head, pv_entries, pv_unmapped>>) ]_vars

\* C12: once ChunkCount Finds of sizeof(long) have succeeded and every pointer
\* has been given back in insertion order, the Find of kBlockSize - header_size
\* bytes succeeds.
C12_RefillSucceeds ==
  fl_last.op = "Refill" => fl_last.err = "Ok"

\* The active block cannot hold the take of thread t's Find: block_size - offset
\* is below the take, and t is about to read the descriptor.
BpExhausted(t) ==
  /\ bp[t].pc = "F_load"
  /\ active_.initialized = 1
  /\ GetPageSize - active_.offset < bp[t].request_size

\* C13: with ReturnNull, a Find whose take exceeds the active block's headroom
\* (block_size - offset) fails with ReachedMemoryLimit, without a provider
\* call and without a change to the descriptor or the block table.
C13_ReturnNullReachedLimit ==
  [][ \A t \in BpThreadIds :
        (~kGrowWhenFull /\ BpExhausted(t) /\ bp'[t] # bp[t])
        => (/\ bp'[t].pc = "idle"
            /\ bp'[t].res = "ReachedMemoryLimit"
            /\ UNCHANGED <<active_, block_table_, anchor_, descriptors, heap_>>) ]_vars

\* C14: with GrowStorage, a Find whose take exceeds the active block's headroom
\* (block_size - offset) goes on to obtain a new block from the provider: it
\* neither takes the bytes from the exhausted block nor fails.
C14_GrowStorageNewBlock ==
  [][ \A t \in BpThreadIds :
        (kGrowWhenFull /\ BpExhausted(t) /\ bp'[t] # bp[t])
        => (/\ bp'[t].pc = "A_load"
            /\ UNCHANGED active_) ]_vars

\* C15: Return(ptr) on the bump strategy fails with OperationNotSupported for
\* the null pointer, for an outstanding pointer and for a foreign one, and
\* leaves the descriptor, the block table and the regions handed out as they
\* were.
C15_ReturnNotSupported ==
  [][ \A t \in BpThreadIds :
        (bp'[t].op = "Return" /\ bp_calls' # bp_calls)
        => (/\ bp'[t].res = "OperationNotSupported"
            /\ UNCHANGED <<active_, block_table_, bp_regions, anchor_, descriptors>>) ]_vars

C15_Witness ==
  \E t \in BpThreadIds :
    /\ bp[t].op = "Return" /\ bp[t].res = "OperationNotSupported"
    /\ \E r \in bp_regions : r.ptr = bp[t].ptr
    /\ active_.initialized = 1

\* The provider's free list, from index head, as far as n entries.
RECURSIVE FreeChain(_, _, _)
FreeChain(desc, head, n) ==
  IF n = 0 \/ head \notin DOMAIN desc THEN <<>>
  ELSE <<head>> \o FreeChain(desc, desc[head].next, n - 1)

PageIndex(p) == (p - PgSuperBase) \div GetPageSize

\* Thread t's step is a Reset that succeeds.
ResetStepOf(t) ==
  /\ \A u \in BpThreadIds : bp[u].pc = "idle"
  /\ \A u \in BpThreadIds \ {t} : bp'[u] = bp[u]
  /\ bp_calls' # bp_calls
  /\ bp'[t].pc = "idle" /\ bp'[t].op = "Reset" /\ bp'[t].res = "Ok"

\* C16: a successful Reset with no Find running gives every block of
\* block_table_[0..active.index] back to the provider exactly once, nulls those
\* slots and zeroes the descriptor, so that the strategy is in the state of a
\* newly constructed one (zero descriptor, empty table) for the Finds that
\* follow.
C16_ResetReleasesAll ==
  [][ \A t \in BpThreadIds :
        ResetStepOf(t) =>
          /\ active_' = BlockDescriptor(0, 0, 0, 0)
          /\ \A i \in DOMAIN block_table_' : block_table_'[i] = Null
          /\ active_.initialized = 0 => UNCHANGED <<anchor_, descriptors>>
          /\ active_.initialized = 1 =>
               LET blocks == {TableAt(i) : i \in 0..active_.index}
                   chain == FreeChain(descriptors', anchor_'.head, anchor_'.available)
               IN /\ Cardinality(blocks) = active_.index + 1
                  /\ anchor_'.available = anchor_.available + active_.index + 1
                  /\ \A b \in blocks :
                       /\ ~descriptors'[PageIndex(b)].occupied
                       /\ Cardinality({k \in DOMAIN chain : chain[k] = PageIndex(b)}) = 1 ]_vars

C16_Witness ==
  \E t \in BpThreadIds :
    /\ bp[t].op = "Reset" /\ bp[t].res = "Ok" /\ bp[t].pc = "idle"
    /\ bp[t].old.initialized = 1 /\ bp[t].old.index >= 1
    /\ active_ = BlockDescriptor(0, 0, 0, 0)

\* C17: a Find with a valid layout whose size is above the block size, sizes
\* next to 2^64 included, fails with SizeRequestTooLarge on the free-list
\* strategy and on the bump strategy, and neither acquires a block nor
\* changes the strategy's state.
C17_TooLargeRejected ==
  [][ /\ (/\ fl_last' # fl_last
          /\ fl_last'.op = "Find"
          /\ IsValidRequest(fl_last'.size, fl_last'.alignment)
          /\ SizeGreater(fl_last'.size, GetAlignedSize))
         => (/\ fl_last'.err = "SizeRequestTooLarge"
             /\ UNCHANGED <<block_, free_list_, hdr, pv_head, pv_entries, mmap_next>>)
      /\ \A t \in BpThreadIds :
           (/\ bp_calls' # bp_calls
            /\ bp[t].pc = "idle" /\ bp'[t] # bp[t]
            /\ bp'[t].op = "Find"
            /\ IsValidRequest(bp'[t].size, bp'[t].alignment)
            /\ SizeGreater(bp'[t].size, GetPageSize))
           => (/\ bp'[t].pc = "idle"
               /\ bp'[t].res = "SizeRequestTooLarge"
               /\ UNCHANGED <<active_, block_table_, anchor_, descriptors>>) ]_vars

\* size == 0, alignment == 0, alignment no power of two, or alignment below the
\* word size.
NotALayout(size, alignment) ==
  \/ size = 0
  \/ alignment = 0
  \/ \A k \in 0..12 : alignment # 2^k
  \/ alignment < kMinimumAlignment

\* C18: a Find with size 0, alignment 0, an alignment that is no power of two
\* or an alignment below the word size fails with InvalidInput on the
\* free-list strategy and on the bump strategy, before any provider call and
\* without a change of the strategy's state: a strategy without a block stays
\* without one.
C18_InvalidLayoutRejected ==
  [][ /\ (/\ fl_last' # fl_last
          /\ fl_last'.op = "Find"
          /\ NotALayout(fl_last'.size, fl_last'.alignment))
         => (/\ fl_last'.err = "InvalidInput"
             /\ UNCHANGED <<block_, free_list_, hdr, outstanding, pv_head, pv_entries,
                            pv_unmapped, mmap_next>>)
      /\ \A t \in BpThreadIds :
           (/\ bp_calls' # bp_calls
            /\ bp[t].pc = "idle"
            /\ bp'[t].op = "Find"
            /\ NotALayout(bp'[t].size, bp'[t].alignment))
           => (/\ bp'[t].pc = "idle"
               /\ bp'[t].res = "InvalidInput"
               /\ UNCHANGED <<active_, block_table_, anchor_, descriptors, heap_>>) ]_vars

C18_Witness ==
  /\ fl_last.op = "Find" /\ fl_last.size = SizeOfT /\ fl_last.alignment = 4
  /\ fl_last.err = "InvalidInput"
  /\ block_ # Null /\ outstanding # {}

\* Thread t's step is the return of a Provide that succeeds.
ProvideReturns(t) == pg[t].pc = "P_mark" /\ pg'[t].pc = "idle" /\ pg'[t].res = "Ok"

C20_AtMostLimit ==
  Cardinality(UNION {pg_held[t] : t \in PgThreadIds}) <= LimitT

\* Thread t's step is its call of Provide / of Return.
ProvideCallOf(t) ==
  /\ pg_calls' # pg_calls
  /\ pg[t].pc = "idle" /\ pg'[t].op = "Provide"
  /\ \A u \in PgThreadIds \ {t} : pg'[u] = pg[u]

ReturnCallOf(t) ==
  /\ pg_calls' # pg_calls
  /\ pg[t].pc = "idle" /\ pg'[t].op = "Return"
  /\ \A u \in PgThreadIds \ {t} : pg'[u] = pg[u]

\* C21: Provide(count) fails with InvalidInput when count is 0 or above the
\* configured limit and with OperationNotSupported for every other count but
\* 1; the anchor stays as it is and nothing is initialised or mapped.
C21_ProvideRejectsCount ==
  [][ \A t \in PgThreadIds :
        (ProvideCallOf(t) /\ pg'[t].arg # 1)
        => (/\ pg'[t].pc = "idle"
            /\ pg'[t].res = IF pg'[t].arg = 0 \/ pg'[t].arg > LimitT
                            THEN "InvalidInput" ELSE "OperationNotSupported"
            /\ UNCHANGED <<anchor_, descriptors, heap_>>) ]_vars

\* C22: Return(ptr) fails with InvalidInput, anchor and descriptors unchanged,
\* when ptr is null or no address this provider has handed out.
C22_ReturnRejectsForeign ==
  [][ \A t \in PgThreadIds :
        (/\ ReturnCallOf(t)
         /\ \/ pg'[t].arg = Null
            \/ \A u \in PgThreadIds : pg'[t].arg \notin pg_held[u])
        => (/\ pg'[t].pc = "idle"
            /\ pg'[t].res = "InvalidInput"
            /\ UNCHANGED <<anchor_, descriptors>>) ]_vars

\* The initialiser has left InitializeHeap with an error: the status is
\* Allocating and no thread is past the CAS that set it.
InitFailed ==
  /\ anchor_.status = "Allocating"
  /\ \A t \in PgThreadIds : pg[t].pc \notin {"I_fetch", "I_store"}

\* C23: after a mapping failure during first-time initialisation every later
\* Provide, by any thread, returns OutOfMemory instead of waiting for ever on
\* status Allocating.
C23_InitFailureTerminal ==
  \A t \in PgThreadIds :
    (InitFailed /\ pg[t].pc = "P_load") ~> (pg[t].pc = "idle" /\ pg[t].res = "OutOfMemory")

\* The threads past the Initial-to-Allocating CAS of InitializeHeap.
Initialisers == {t \in PgThreadIds : pg[t].pc \in {"I_fetch", "I_store"}}

\* The order of the status values.
StatusRank(status) ==
  CASE status = "Initial" -> 0 [] status = "Allocating" -> 1 [] status = "Allocated" -> 2

\* The descriptors form the chain 0 -> 1 -> ... and none is occupied.
FullyLinked(d) == \A i \in DOMAIN d : d[i].next = i + 1 /\ ~d[i].occupied

\* What the claim asks of first-time initialisation, with the number of
\* pages that have to be available once the status is Allocated.
InitialisedOnce(limit) ==
  /\ Cardinality(Initialisers') <= 1
  /\ (Initialisers' # Initialisers /\ Initialisers' # {})
       => (anchor_.status = "Initial" /\ anchor_'.status = "Allocating" /\ ~heap_)
  /\ StatusRank(anchor_'.status) \in {StatusRank(anchor_.status), StatusRank(anchor_.status) + 1}
  /\ heap_ => heap_'
  /\ (anchor_.status # "Allocated" /\ anchor_'.status = "Allocated")
       => (heap_' /\ FullyLinked(descriptors') /\ anchor_'.head = 0
           /\ anchor_'.available = limit)

\* C24: under any interleaving of first-time Provide calls one thread at most
\* is past the Initial-to-Allocating CAS and maps the super block, the status
\* only moves Initial, Allocating, Allocated, and the step that publishes
\* Allocated publishes the fully linked descriptor chain and available = Limit.
C24_SingleInitialiser == [][InitialisedOnce(LimitT)]_vars

\* Some thread is inside Provide or Return.
PgBusy == \E t \in PgThreadIds : pg[t].pc # "idle"

\* The calls that have returned: those started less those still running.
PgReturned == pg_calls - Cardinality({t \in PgThreadIds : pg[t].pc # "idle"})

\* A compare_exchange_weak on anchor_ by thread t that fails.
PgCasFails(t) ==
  /\ pg[t].pc \in {"P_cas", "I_cas", "R_cas"}
  /\ pg'[t].pc \in {"P_load", "R_load"}
  /\ anchor_' = anchor_

\* C25: progress is lock-free: a CAS fails only when another thread has
\* changed the word since it was loaded, and with initialisation succeeding,
\* under fair scheduling, whenever a thread is inside Provide or Return some
\* call eventually returns.
C25_LockFreeProgress ==
  /\ [][\A t \in PgThreadIds : PgCasFails(t) => anchor_ # pg[t].old]_vars
  /\ ([]~InitFailed)
       => \A n \in 0..MaxPgCalls : (PgBusy /\ PgReturned = n) ~> (PgReturned > n)

\* The ranges the single-threaded provider holds from the OS: the page of its
\* block array and the ranges recorded in it.
OsHeld == (IF pv_head = Null THEN {} ELSE {pv_head}) \cup {pv_entries[i] : i \in DOMAIN pv_entries}

\* C26: every range acquired from the OS by a provider is released exactly
\* once, by a Return, a Reset or the destruction of the provider: once the
\* provider is destroyed it holds no range that was not given back.
C26_NoRangeLeaked == fl_last.op = "Destroy" => (OsHeld \ pv_unmapped) = {}

\* Positions of the free list whose header has at least m bytes.
Fitting(m) == {i \in 1..Len(FreeHeaders) : HeaderAt(hdr, FreeHeaders[i]).size >= m}

\* The position the configured policy has to answer, among the fitting ones.
Chosen(m) ==
  LET size(i) == HeaderAt(hdr, FreeHeaders[i]).size
      best == {i \in Fitting(m) : \A j \in Fitting(m) : size(i) <= size(j)}
      worst == {i \in Fitting(m) : \A j \in Fitting(m) : size(i) >= size(j)}
      among == IF kSearchStrategy = "FirstFit" THEN Fitting(m)
               ELSE IF kSearchStrategy = "BestFit" THEN best ELSE worst
  IN CHOOSE i \in among : \A j \in among : i <= j

\* C27: first-fit answers the first header with size >= min_bytes, best-fit
\* the smallest and worst-fit the largest of the fitting headers, the earliest
\* of equal ones; each answers none when nothing fits; prev is null exactly
\* when the header is the list head and otherwise prev.next is the header.
C27_FitSearch ==
  fl_last.op = "FindBlock" =>
    IF Fitting(fl_last.size) = {} THEN fl_last.err = "none"
    ELSE /\ fl_last.err = "pair"
         /\ fl_last.ptr = FreeHeaders[Chosen(fl_last.size)]
         /\ (fl_last.prev = Null) <=> (fl_last.ptr = free_list_)
         /\ fl_last.prev # Null => HeaderAt(hdr, fl_last.prev).next = fl_last.ptr

\* A search answered a header past the head while a later header of the
\* same size fits as well.
C27_Witness ==
  /\ fl_last.op = "FindBlock" /\ fl_last.err = "pair" /\ fl_last.prev # Null
  /\ kSearchStrategy # "FirstFit"
  /\ \E i \in Fitting(fl_last.size) :
       /\ i > Chosen(fl_last.size)
       /\ HeaderAt(hdr, FreeHeaders[i]).size = HeaderAt(hdr, fl_last.ptr).size

\* C28: Take(k) answers the stored range for every key k inserted and not
\* yet taken, also after collisions on the start slot and after removals on
\* the probe path, and answers none for a key that is not stored.
C28_TakeFindsStored ==
  bm_last.op = "Take" => (bm_last.res = bm_last.stored /\ bm_last.ok = (bm_last.stored # NoRange))

\* C30: the static block is out at most once: a Provide(1) while it is out
\* fails with NoFreeBlock, so no two borrowers hold it together.
C30_StaticAtMostOnce ==
  /\ StOut <= 1
  /\ (st_last.op = "Provide" /\ st_last.arg = 1 /\ st_last.out > 0) => st_last.res = "NoFreeBlock"

\* C29: Return(ptr) of the single-threaded page provider terminates for every
\* non-null ptr, and fails with InvalidInput, the recorded ranges unchanged,
\* when ptr is not recorded as an outstanding range.
C29_ReturnUnknownTerminates ==
  (fl_last.op = "ProviderReturn" /\ fl_last.ptr # Null)
  => (/\ fl_last.err # "Hang"
      /\ ~fl_last.known => fl_last.err = "InvalidInput")

\* The blocks the provider has handed out and not got back.
BpAcquired == {p \in PgPages : heap_ /\ PageIndex(p) \in DOMAIN descriptors
                                     /\ descriptors[PageIndex(p)].occupied}

\* The slots of block_table_ holding p, and the threads carrying p between
\* Provide and the store or the Return that follows the CAS.
SlotsOf(p) == {i \in DOMAIN block_table_ : block_table_[i] = p}

CarriersOf(p) == {t \in BpRacerIds : bp[t].pc \in {"A_cas", "A_publish", "A_release"}
                                      /\ bp[t].new_block = p}

\* C31: in AllocateNewBlock, under any interleaving of concurrent Finds, each
\* block obtained from the provider is either published in exactly one slot of
\* the block table by the CAS winner or given back to the provider by the CAS
\* loser: no two threads publish the same slot and no acquired block is leaked.
C31_PublishedOrReturned ==
  /\ \A p \in BpAcquired : Cardinality(SlotsOf(p)) + Cardinality(CarriersOf(p)) = 1
  /\ \A t, u \in BpRacerIds :
       (t # u /\ bp[t].pc = "A_publish" /\ bp[u].pc = "A_publish")
         => bp[t].new.index # bp[u].new.index
  /\ \A t \in BpRacerIds : bp[t].pc = "A_publish" => TableAt(bp[t].new.index) = Null

\* C32: a Find that read a descriptor naming index i finds block_table_[i]
\* populated when it reads the slot: the slot is written before the descriptor
\* naming it becomes visible, so no Find returns null + offset.
C32_SlotPopulatedBeforeVisible ==
  [][ \A t \in BpRacerIds :
        (bp[t].pc = "F_ret" /\ bp'[t].pc = "idle")
          => /\ TableAt(bp[t].old.index) # Null
             /\ bp'[t].ptr = TableAt(bp[t].old.index) + bp[t].old.offset
             /\ bp'[t].ptr >= PgSuperBase ]_vars

\* C39: the descriptor's index never wraps: once 2^kTotalEntryInBits blocks
\* have been published, a further new-block advance fails with an error
\* instead of advancing the index modulo 2^kTotalEntryInBits, and no store
\* into the block table overwrites a block an earlier advance put there, so
\* that Reset still finds every acquired block.
C39_IndexNeverWraps ==
  [][ \A t \in BpRacerIds :
        /\ (bp[t].pc = "A_load" /\ bp'[t].pc # "A_load"
               /\ active_.initialized = 1 /\ active_.index = IndexModulus - 1)
             => (bp'[t].pc = "idle" /\ bp'[t].res \notin {"Ok", "None"})
        /\ (bp[t].pc = "A_publish" /\ bp'[t].pc # "A_publish")
             => TableAt(bp[t].new.index) = Null ]_vars

\* C38: every region [p, p + take) a successful Find has returned lies inside
\* one provider block recorded in the block table, and the descriptor's
\* offset never exceeds the provider's block size.
C38_RegionInsideBlock ==
  /\ active_.offset <= GetPageSize
  /\ \A r \in bp_regions :
       \E i \in DOMAIN block_table_ :
         /\ block_table_[i] # Null
         /\ block_table_[i] <= r.ptr
         /\ r.ptr + r.take <= block_table_[i] + GetPageSize

\* The index reached from head after n steps along descriptors[.].next; a step
\* from an index outside the descriptors stays where it is.
RECURSIVE ChainEnd(_, _, _)
ChainEnd(desc, head, n) ==
  IF n = 0 \/ head \notin DOMAIN desc THEN head
  ELSE ChainEnd(desc, desc[head].next, n - 1)

\* Pages out of the provider's hands: held by a caller, on their way to one
\* (Provide past its CAS) or on their way back (Return before its CAS).
PgOutPages ==
  {p \in PgPages : pg_holds[p] >= 1}
    \cup {PgSuperBase + pg[t].old.head * GetPageSize : t \in {u \in PgThreadIds : pg[u].pc = "P_mark"}}
    \cup {PgSuperBase + pg[t].index * GetPageSize :
             t \in {u \in PgThreadIds : pg[u].pc \in {"R_load", "R_write", "R_cas"}}}

\* C33: whenever the status is Allocated, under any interleaving of Provide and
\* Return, following descriptors[.].next from anchor.head reaches the sentinel
\* (the limit) after exactly anchor.available steps, without a cycle, and
\* visits only pages that no caller holds; available plus the pages out is
\* the limit.
C33_FreeChainIsFreePages ==
  anchor_.status = "Allocated" =>
    LET chain == FreeChain(descriptors, anchor_.head, anchor_.available) IN
    /\ Len(chain) = anchor_.available
    /\ ChainEnd(descriptors, anchor_.head, anchor_.available) = kLimit
    /\ \A i, j \in DOMAIN chain : chain[i] = chain[j] => i = j
    /\ \A i \in DOMAIN chain : PgSuperBase + chain[i] * GetPageSize \notin PgOutPages
    /\ anchor_.available + Cardinality(PgOutPages) = kLimit

\* seq with every occurrence of x replaced by the elements of repl.
RECURSIVE SeqReplace(_, _, _)
SeqReplace(seq, x, repl) ==
  IF seq = <<>> THEN <<>>
  ELSE (IF Head(seq) = x THEN repl ELSE <<Head(seq)>>) \o SeqReplace(Tail(seq), x, repl)

\* The step is a Find that succeeds on a free list that held the target.
FindTook(target) ==
  /\ fl_finds' = fl_finds + 1
  /\ fl_last'.op = "Find" /\ fl_last'.err = "Ok"
  /\ target = GetHeader(fl_last'.ptr)
  /\ \E i \in DOMAIN FreeHeaders : FreeHeaders[i] = target

\* C34: a successful Find changes the free list only by replacing the chosen
\* target with the remainder of the split: the list holds afterwards, in the
\* same order, every region it held before except target, with the remainder
\* in target's place when the split produced one and target's successors
\* still on the list when it did not; the target's next is null and the
\* address returned is target + header size.
C34_FindReplacesTarget ==
  [][ \A target \in DOMAIN hdr :
        FindTook(target) =>
          LET take == AlignUp(fl_last'.size + GetBlockHeaderSize, fl_last'.alignment)
              split == SplitBlock(hdr, target, take, fl_last'.alignment)
          IN /\ ListFrom(hdr', free_list_', MaxWalk + 1)
                  = SeqReplace(FreeHeaders, target,
                               IF split.new_header = Null THEN <<>>
                               ELSE <<split.new_header>>)
             /\ \A a \in FreeSet \ {target} : HeaderAt(hdr', a) = HeaderAt(hdr, a)
             /\ HeaderAt(hdr', target).next = Null
             /\ fl_last'.ptr = target + GetBlockHeaderSize ]_vars

\* The call the step makes.
BlkCall == fl_last'

BlkStepIs(op) == fl_finds' = fl_finds + 1 /\ BlkCall.op = op

\* C35: Split(block, bytes_needed, alignment), with take the aligned
\* bytes_needed, fails with HeaderIsNullptr / InvalidSize / InvalidAlignment on
\* a null block, zero bytes_needed or an invalid alignment; it returns no
\* header and leaves the block as it was when block.size - take is below
\* align_up(header size + 1, alignment); otherwise it creates a header at
\* block + take with size block.size - take and the block's old next, and
\* sets block to {size = take, next = new header}: the two sizes sum to the
\* original size.
C35_SplitContract ==
  [][ BlkStepIs("SplitBlock") =>
        LET c == BlkCall
            take == AlignUp(c.bytes_needed, c.alignment)
        IN IF c.block = Null THEN c.kind = "fail" /\ c.failure = "HeaderIsNullptr" /\ hdr' = hdr
           ELSE IF c.bytes_needed = 0
           THEN c.kind = "fail" /\ c.failure = "InvalidSize" /\ hdr' = hdr
           ELSE IF ~IsValidAlignment(c.alignment)
           THEN c.kind = "fail" /\ c.failure = "InvalidAlignment" /\ hdr' = hdr
           ELSE IF c.before.size - take < AlignUp(GetBlockHeaderSize + 1, c.alignment)
           THEN c.kind = "ok" /\ c.new_header = Null /\ hdr' = hdr
           ELSE /\ c.kind = "ok" /\ c.new_header = c.block + take
                /\ HeaderAt(hdr', c.new_header) = [size |-> c.before.size - take,
                                                   next |-> c.before.next]
                /\ HeaderAt(hdr', c.block) = [size |-> take, next |-> c.new_header]
                /\ HeaderAt(hdr', c.block).size + HeaderAt(hdr', c.new_header).size
                     = c.before.size ]_vars

\* The successors CoalesceBlock absorbs: the nodes met along next for as long
\* as each starts where the bytes gathered so far end.
RECURSIVE AdjacentRun(_, _, _, _)
AdjacentRun(mem, end, next, fuel) ==
  IF next = Null \/ next # end \/ fuel = 0 THEN <<>>
  ELSE <<next>> \o AdjacentRun(mem, end + HeaderAt(mem, next).size,
                                HeaderAt(mem, next).next, fuel - 1)

RECURSIVE SumOf(_, _)
SumOf(mem, run) ==
  IF run = <<>> THEN 0 ELSE HeaderAt(mem, Head(run)).size + SumOf(mem, Tail(run))

\* C36: Coalesce(block) absorbs the maximal run of successors that are
\* adjacent in memory: afterwards block.size is the sum of the sizes of block
\* and of every absorbed node, block.next is the first node that is not
\* adjacent (or null), the nodes that are linked but not adjacent are as they
\* were, and a second Coalesce changes nothing; Coalesce(null) fails with
\* HeaderIsNullptr.
C36_CoalesceAbsorbsRun ==
  [][ BlkStepIs("CoalesceBlock") =>
        LET c == BlkCall
            run == AdjacentRun(hdr, c.block + c.before.size, c.before.next, MaxWalk)
            last == IF run = <<>> THEN c.before ELSE HeaderAt(hdr, run[Len(run)])
        IN IF c.block = Null
           THEN c.kind = "fail" /\ c.failure = "HeaderIsNullptr" /\ hdr' = hdr
           ELSE /\ c.kind = "ok"
                /\ c.after.size = c.before.size + SumOf(hdr, run)
                /\ c.after.next = last.next
                /\ c.after.next # c.block + c.after.size
                /\ \A a \in DOMAIN hdr :
                     (a < c.block \/ a >= c.block + c.after.size) => HeaderAt(hdr', a) = hdr[a]
                /\ CoalesceBlock(hdr', c.block) = [kind |-> "ok", mem |-> hdr'] ]_vars

\* C36 witness: a Coalesce absorbed the adjacent successor and stopped at a
\* linked node that is not adjacent.
C36_Witness ==
  /\ fl_last.op = "CoalesceBlock" /\ fl_last.kind = "ok"
  /\ fl_last.after.size > fl_last.before.size
  /\ fl_last.after.next # Null
  /\ fl_last.after.next > fl_last.block + fl_last.after.size

\* C37: Split followed by Coalesce is a round trip: for a block whose
\* successor is not adjacent (or is null) and a Split that produces a new
\* header, the Coalesce of the block that follows restores block.size and
\* block.next to what they were before the Split.
C37_SplitCoalesceRoundTrip ==
  [][ ( /\ BlkStepIs("CoalesceBlock")
        /\ fl_last.op = "SplitBlock" /\ fl_last.kind = "ok" /\ fl_last.new_header # Null
        /\ fl_last.block = BlkCall.block
        /\ fl_last.before.next # fl_last.block + fl_last.before.size )
      => ( /\ BlkCall.kind = "ok"
           /\ BlkCall.before = [size |-> AlignUp(fl_last.bytes_needed, fl_last.alignment),
                                next |-> fl_last.new_header]
           /\ BlkCall.after = fl_last.before
           /\ HeaderAt(hdr', BlkCall.block) = fl_last.before ) ]_vars

\* C37 witness: a block with a linked successor that is not adjacent was
\* split in two and then coalesced.
C37_Witness ==
  /\ fl_last.op = "CoalesceBlock" /\ fl_last.kind = "ok"
  /\ Len(fl_order) = 1
  /\ fl_order[1].op = "SplitBlock" /\ fl_order[1].new_header # Null
  /\ fl_order[1].block = fl_last.block
  /\ fl_order[1].before.next # Null
  /\ fl_order[1].before.next # fl_last.block + fl_order[1].before.size
  /\ fl_last.after = fl_order[1].before

\* C40: on the single-threaded page provider, Return(ptr) terminates and
\* succeeds for every range the client holds, whichever block array of the
\* chain records it: also for a range recorded in an array that is no longer
\* the head, after the head filled up and a fresh array was chained in front.
C40_ReturnHeldSucceeds ==
  (fl_last.op = "ProviderReturn" /\ fl_last.known) => fl_last.err = "Ok"

====
